---- MODULE Spec2Model ----
(***************************************************************************)
(* Model of the remark plugin of src/src/markdown/remark-plugins/          *)
(* snippets.ts: the include resolver, the snippet resolver, the region     *)
(* locator, dedent, the path token parser and the document walker.         *)
(*                                                                         *)
(* A text is a sequence of lexemes.  Every lexeme is a string that stands  *)
(* for exactly its own characters, so the concatenation of the lexemes of  *)
(* a text is the text: <<"<!--", "@include:", " ", ".", "/", "a", ".",     *)
(* "md", "-->">> is the text  <!--@include: ./a.md-->.  A lexeme of more   *)
(* than one character is made of characters of one class, and no pattern   *)
(* of the source can match a part of it only.  The regular expressions of  *)
(* the source are operators on lexeme sequences.                           *)
(***************************************************************************)
EXTENDS Integers, Sequences, FiniteSets, Bags, TLC

(***************************************************************************)
(* Character classes of the regular expressions.                           *)
(***************************************************************************)
\* \s
WS == {" ", "\t", "\n", "\r"}

\* the line terminators that "." does not match and that "^" and "$" of a
\* multiline pattern look at
LineTerm == {"\n", "\r"}

\* \d
Digits == {"0", "1", "2", "3", "4", "5", "6", "7", "8", "9"}

\* lexemes that hold a character outside \w
Punct == {"<!--", "-->", "<<<", "@include:", "@", "/", ".", "#", "{", "}",
          ",", "-", "[", "]", "(*", "*)", "/*", "*/", "--", "::", "---",
          "~", "=", "\"", "fence3"}

\* lexemes with an upper-case letter: inside \w, outside [a-z0-9]
Upper == {"Region", "End", "REM", "T"}

IsWS(c) == c \in WS

IsDigit(c) == c \in Digits

\* \w+ matches the lexeme
IsW(c) == c \notin WS /\ c \notin Punct

\* [\w-]+ matches the lexeme
IsWDash(c) == IsW(c) \/ c = "-"

\* [a-z0-9]+ matches the lexeme
IsLowerAlnum(c) == IsW(c) /\ c \notin Upper

\* "." matches the lexeme
IsDot(c) == c \notin LineTerm

(***************************************************************************)
(* Sequences, and the String and Array methods the source calls.           *)
(***************************************************************************)
Min(a, b) == IF a < b THEN a ELSE b

Max(a, b) == IF a > b THEN a ELSE b

\* Op applied to the value v: names a value that is used more than once
With(v, Op(_)) == Op(v)

\* the elements of s from the 1-based position i on
From(s, i) == SubSeq(s, i, Len(s))

\* s without its leading whitespace
RECURSIVE TrimStart(_)
TrimStart(s) ==
  IF s # <<>> /\ IsWS(Head(s)) THEN TrimStart(Tail(s)) ELSE s

\* s without its trailing whitespace
RECURSIVE TrimEnd(_)
TrimEnd(s) ==
  IF s # <<>> /\ IsWS(s[Len(s)]) THEN TrimEnd(SubSeq(s, 1, Len(s) - 1)) ELSE s

\* String.prototype.trim
Trim(s) == TrimEnd(TrimStart(s))

\* the concatenation of a sequence of sequences
RECURSIVE Flatten(_)
Flatten(ss) == IF ss = <<>> THEN <<>> ELSE Head(ss) \o Flatten(Tail(ss))

\* Array.prototype.join("\n") of a non-empty array of lines
RECURSIVE JoinNL(_)
JoinNL(ls) ==
  IF ls = <<>> THEN <<>>
  ELSE IF Len(ls) = 1 THEN ls[1]
  ELSE ls[1] \o <<"\n">> \o JoinNL(Tail(ls))

\* the least position >= i of s that holds c, Len(s) + 1 when there is none
RECURSIVE IndexFrom(_, _, _)
IndexFrom(s, c, i) ==
  IF i > Len(s) THEN Len(s) + 1
  ELSE IF s[i] = c THEN i
  ELSE IndexFrom(s, c, i + 1)

\* String.prototype.split("\n")
RECURSIVE SplitNL(_)
SplitNL(t) ==
  LET i == IndexFrom(t, "\n", 1)
  IN  IF i > Len(t) THEN <<t>>
      ELSE <<SubSeq(t, 1, i - 1)>> \o SplitNL(From(t, i + 1))

\* String.prototype.split(/\r?\n/): a "\r" right before the "\n" belongs to
\* the separator
RECURSIVE SplitCRNL(_)
SplitCRNL(t) ==
  LET i == IndexFrom(t, "\n", 1)
      e == IF i > 1 /\ i <= Len(t) /\ t[i - 1] = "\r" THEN i - 2 ELSE i - 1
  IN  IF i > Len(t) THEN <<t>>
      ELSE <<SubSeq(t, 1, e)>> \o SplitCRNL(From(t, i + 1))

\* a read that keeps the line ends of the file
KeepCRLF(t) == t

\* String.prototype.replace(/\r\n/g, "\n")
RECURSIVE NormalizeCRLF(_)
NormalizeCRLF(t) ==
  IF t = <<>> THEN <<>>
  ELSE IF Len(t) >= 2 /\ t[1] = "\r" /\ t[2] = "\n" THEN NormalizeCRLF(Tail(t))
  ELSE <<Head(t)>> \o NormalizeCRLF(Tail(t))

\* an argument of slice that was not given
Undefined == [def |-> FALSE, v |-> 0]

Num(n) == [def |-> TRUE, v |-> n]

\* the relative index of Array.prototype.slice: negative counts from the end
RelIndex(a, len, dflt) ==
  IF ~a.def THEN dflt
  ELSE IF a.v < 0 THEN Max(len + a.v, 0)
  ELSE Min(a.v, len)

\* Array.prototype.slice(start, end) and String.prototype.slice, 0-based
\* half-open
SliceJS(s, start, end) ==
  LET k == RelIndex(start, Len(s), 0)
      f == RelIndex(end, Len(s), Len(s))
  IN  SubSeq(s, k + 1, f)

DigitValue(c) ==
  CASE c = "0" -> 0 [] c = "1" -> 1 [] c = "2" -> 2 [] c = "3" -> 3
    [] c = "4" -> 4 [] c = "5" -> 5 [] c = "6" -> 6 [] c = "7" -> 7
    [] c = "8" -> 8 [] c = "9" -> 9

\* parseInt of a non-empty string of decimal digits
RECURSIVE ParseInt(_)
ParseInt(ds) ==
  IF Len(ds) = 1 THEN DigitValue(ds[1])
  ELSE 10 * ParseInt(SubSeq(ds, 1, Len(ds) - 1)) + DigitValue(ds[Len(ds)])

\* the number of characters of a text
RECURSIVE CharLen(_)
CharLen(s) == IF s = <<>> THEN 0 ELSE Len(Head(s)) + CharLen(Tail(s))

\* String.prototype.slice(0, -n) for n >= 1: the text without its last n
\* characters; a lexeme that is cut through leaves the lexeme "~"
RECURSIVE DropLastChars(_, _)
DropLastChars(s, n) ==
  IF n <= 0 \/ s = <<>> THEN s
  ELSE LET l == Len(s[Len(s)])
       IN  IF l <= n THEN DropLastChars(SubSeq(s, 1, Len(s) - 1), n - l)
           ELSE SubSeq(s, 1, Len(s) - 1) \o <<"~">>

(***************************************************************************)
(* node:path, on absolute paths held as sequences of segments (a segment   *)
(* is a sequence of lexemes) and relative paths held as texts.             *)
(***************************************************************************)
\* the segments of a path text: it is cut at every "/"
RECURSIVE SplitPath(_)
SplitPath(p) ==
  LET i == IndexFrom(p, "/", 1)
  IN  IF i > Len(p) THEN <<p>>
      ELSE <<SubSeq(p, 1, i - 1)>> \o SplitPath(From(p, i + 1))

\* path.normalize of an absolute path: "" and "." segments go, ".." takes
\* the segment before it with it (and goes alone at the root)
RECURSIVE NormalizeSegs(_, _)
NormalizeSegs(done, todo) ==
  IF todo = <<>> THEN done
  ELSE LET g == Head(todo)
       IN  IF g = <<>> \/ g = <<".">> THEN NormalizeSegs(done, Tail(todo))
           ELSE IF g = <<".", ".">>
             THEN NormalizeSegs(SubSeq(done, 1, Len(done) - 1), Tail(todo))
           ELSE NormalizeSegs(Append(done, g), Tail(todo))

\* path.join(base, rel) for an absolute base
PathJoin(base, rel) == NormalizeSegs(<<>>, base \o SplitPath(rel))

\* path.resolve(base, p) for an absolute base: an absolute p stands alone
PathResolve(base, p) ==
  IF p # <<>> /\ p[1] = "/" THEN NormalizeSegs(<<>>, SplitPath(p))
  ELSE NormalizeSegs(<<>>, base \o SplitPath(p))

\* path.dirname of an absolute path
PathDirname(path) == SubSeq(path, 1, Len(path) - 1)

\* the greatest position of s that holds c, 0 when there is none
RECURSIVE LastIndexOf(_, _, _)
LastIndexOf(s, c, i) ==
  IF i < 1 THEN 0 ELSE IF s[i] = c THEN i ELSE LastIndexOf(s, c, i - 1)

\* path.extname of an absolute path: from the last "." of the last segment
\* on, unless that "." starts the segment
PathExtname(path) ==
  IF path = <<>> THEN <<>>
  ELSE LET b == path[Len(path)]
           i == LastIndexOf(b, ".", Len(b))
       IN  IF i <= 1 THEN <<>> ELSE From(b, i)

(***************************************************************************)
(* regionRE and rangeRE of the include payload.                            *)
(***************************************************************************)
\* [^\s{]
IsRegionChar(c) == ~IsWS(c) /\ c # "{"

\* the end of the longest run of [^\s{] that starts at position i
RECURSIVE RegionRunEnd(_, _)
RegionRunEnd(s, i) ==
  IF i + 1 <= Len(s) /\ IsRegionChar(s[i + 1]) THEN RegionRunEnd(s, i + 1)
  ELSE i

\* m1.match(regionRE)?.[0], <<>> for no match: /(#[^\s{]+)/ is not
\* anchored, it takes the first "#" that a [^\s{] follows
RegionMatch(m1) ==
  LET starts == {i \in 1..(Len(m1) - 1) :
                    m1[i] = "#" /\ IsRegionChar(m1[i + 1])}
  IN  IF starts = {} THEN <<>>
      ELSE LET i == CHOOSE k \in starts : \A j \in starts : k <= j
           IN  SubSeq(m1, i, RegionRunEnd(m1, i + 1))

\* /\{(\d*),(\d*)\}$/ matches the tail of m1 that starts at position i
IsRangeAt(m1, i) ==
  /\ m1[i] = "{"
  /\ m1[Len(m1)] = "}"
  /\ \E c \in (i + 1)..(Len(m1) - 1) :
        /\ m1[c] = ","
        /\ \A k \in (i + 1)..(c - 1) : IsDigit(m1[k])
        /\ \A k \in (c + 1)..(Len(m1) - 1) : IsDigit(m1[k])

\* m1.match(rangeRE): [found, all, startLine, endLine]
RangeMatch(m1) ==
  LET starts == {i \in 1..Len(m1) : IsRangeAt(m1, i)}
  IN  IF starts = {}
        THEN [found |-> FALSE, all |-> <<>>, startLine |-> <<>>, endLine |-> <<>>]
      ELSE LET i == CHOOSE k \in starts : \A j \in starts : k <= j
               c == IndexFrom(m1, ",", i)
           IN  [found |-> TRUE, all |-> From(m1, i),
                startLine |-> SubSeq(m1, i + 1, c - 1),
                endLine |-> SubSeq(m1, c + 1, Len(m1) - 1)]

(***************************************************************************)
(* The region markers.  "endregion" is the two lexemes "end", "region" and *)
(* "EndRegion" the two lexemes "End", "Region".                            *)
(***************************************************************************)
\* the result of exec(...)?.[1] when the pattern does not match
NoMatch == <<"~nomatch">>

\* The eight pattern pairs.  Every pattern is
\*   ^ \s* prefix gap hash keyword \b \s* (.*?) \s* close
\* prefix: the alternatives of the comment opener; gap: what stands between
\* the opener and the rest ("any" \s*, "some" \s+, "none" nothing); hash:
\* the "#" before the keyword ("req" #, "opt" #?, "no" none); caps: the
\* keyword is [rR]egion / [eE]nd ?[rR]egion; close: the closing lexeme, ""
\* for $.
Markers ==
  << [prefix |-> {<<"/", "/">>}, gap |-> "any", hash |-> "opt",
      caps |-> FALSE, close |-> ""],
     [prefix |-> {<<"<!--">>}, gap |-> "any", hash |-> "opt",
      caps |-> FALSE, close |-> "-->"],
     [prefix |-> {<<"/*">>}, gap |-> "any", hash |-> "req",
      caps |-> FALSE, close |-> "*/"],
     [prefix |-> {<<"#">>}, gap |-> "none", hash |-> "no",
      caps |-> TRUE, close |-> ""],
     [prefix |-> {<<"#">>}, gap |-> "any", hash |-> "opt",
      caps |-> FALSE, close |-> ""],
     [prefix |-> {<<"--">>, <<"::">>, <<"REM">>, <<"@", "REM">>},
      gap |-> "any", hash |-> "req", caps |-> FALSE, close |-> ""],
     [prefix |-> {<<"#", "pragma">>}, gap |-> "some", hash |-> "no",
      caps |-> FALSE, close |-> ""],
     [prefix |-> {<<"(*">>}, gap |-> "any", hash |-> "req",
      caps |-> FALSE, close |-> "*)"] >>

\* the number of lexemes the keyword of the pattern takes at the head of r,
\* 0 when it is not there
KeywordLen(re, side, r) ==
  LET regions == IF re.caps THEN {"region", "Region"} ELSE {"region"}
      ends == IF re.caps THEN {"end", "End"} ELSE {"end"}
  IN  IF side = "start"
        THEN IF r # <<>> /\ r[1] \in regions THEN 1 ELSE 0
      ELSE IF Len(r) >= 2 /\ r[1] \in ends /\ r[2] \in regions THEN 2
      ELSE IF re.caps /\ Len(r) >= 3 /\ r[1] \in ends /\ r[2] = " "
                /\ r[3] \in regions THEN 3
      ELSE 0

\* re.start.exec(line)?.[1] and re.end.exec(line)?.[1]: the captured name,
\* NoMatch when the line does not match
MarkerExec(re, side, line) ==
  With(TrimStart(line), LAMBDA r0 :
  With({p \in re.prefix : Len(r0) >= Len(p) /\ SubSeq(r0, 1, Len(p)) = p},
       LAMBDA pres :
    IF pres = {} THEN NoMatch
    ELSE
  With(From(r0, Len(CHOOSE q \in pres : TRUE) + 1), LAMBDA r1 :
  With(IF re.gap = "none" THEN r1 ELSE TrimStart(r1), LAMBDA r2 :
  With(IF re.hash # "no" /\ r2 # <<>> /\ r2[1] = "#" THEN Tail(r2) ELSE r2,
       LAMBDA r3 :
  With(KeywordLen(re, side, r3), LAMBDA klen :
  With(From(r3, klen + 1), LAMBDA r4 :
  With(IndexFrom(r4, re.close, 1), LAMBDA c :
  With(Trim(IF re.close = "" THEN r4 ELSE SubSeq(r4, 1, c - 1)), LAMBDA name :
    IF /\ re.gap # "some" \/ (r1 # <<>> /\ IsWS(r1[1]))
       /\ re.hash # "req" \/ (r2 # <<>> /\ r2[1] = "#")
       /\ klen > 0
       /\ r4 = <<>> \/ ~IsW(r4[1])
       /\ re.close = "" \/ c <= Len(r4)
       /\ \A k \in 1..Len(name) : IsDot(name[k])
      THEN name
    ELSE NoMatch)))))))))

\* re.start.test(line), re.end.test(line)
MarkerTest(re, side, line) == MarkerExec(re, side, line) # NoMatch

(***************************************************************************)
(* findRegion.  Line indices are those of the source: 0-based.             *)
(***************************************************************************)
NotFound == [found |-> FALSE, re |-> 0, start |-> 0, end |-> 0]

\* a second loop that keeps no count: the first end marker from line i on
\* with the name or no name closes the region
FindRegionEndFirst(lines, d, start, regionName, i, counter) ==
  With({k \in i..(Len(lines) - 1) :
          /\ MarkerExec(Markers[d], "start", lines[k + 1]) # regionName
          /\ MarkerExec(Markers[d], "end", lines[k + 1]) \in {regionName, <<>>}},
       LAMBDA ends :
    IF ends = {} THEN NotFound
    ELSE [found |-> TRUE, re |-> d, start |-> start,
          end |-> CHOOSE k \in ends : \A x \in ends : k <= x])

\* the second loop of findRegion, from the 0-based line i on
RECURSIVE FindRegionEnd(_, _, _, _, _, _)
FindRegionEnd(lines, d, start, regionName, i, counter) ==
  IF i >= Len(lines) THEN NotFound
  ELSE IF MarkerExec(Markers[d], "start", lines[i + 1]) = regionName
    THEN FindRegionEnd(lines, d, start, regionName, i + 1, counter + 1)
  ELSE With(MarkerExec(Markers[d], "end", lines[i + 1]), LAMBDA endRegion :
         IF endRegion = regionName \/ endRegion = <<>>
           THEN IF counter - 1 = 0
                  THEN [found |-> TRUE, re |-> d, start |-> start, end |-> i]
                ELSE FindRegionEnd(lines, d, start, regionName, i + 1, counter - 1)
         ELSE FindRegionEnd(lines, d, start, regionName, i + 1, counter))

\* findRegion(lines, regionName): [found, re, start, end], re the index of
\* the chosen pattern pair in Markers
FindRegion(lines, regionName) ==
  With({h \in (0..(Len(lines) - 1)) \X (1..Len(Markers)) :
          MarkerExec(Markers[h[2]], "start", lines[h[1] + 1]) = regionName},
       LAMBDA hits :
    IF hits = {} THEN NotFound
    ELSE With(CHOOSE x \in hits :
                \A y \in hits : x[1] < y[1] \/ (x[1] = y[1] /\ x[2] <= y[2]),
              LAMBDA h :
           FindRegionEnd(lines, h[2], h[1] + 1, regionName, h[1] + 1, 1)))

(***************************************************************************)
(* dedent.                                                                 *)
(***************************************************************************)
\* a loop that reports the length of a line of spaces and tabs as its
\* indent
RECURSIVE IndentOfBlankCounts(_, _)
IndentOfBlankCounts(line, i) ==
  IF i >= Len(line) THEN Num(Len(line))
  ELSE IF line[i + 1] # " " /\ line[i + 1] # "\t" THEN Num(i)
  ELSE IndentOfBlankCounts(line, i + 1)

\* the 0-based index of the first character of the line that is neither a
\* space nor a tab, Undefined when the loop over the line ends without one
RECURSIVE IndentOf(_, _)
IndentOf(line, i) ==
  IF i >= Len(line) THEN Undefined
  ELSE IF line[i + 1] # " " /\ line[i + 1] # "\t" THEN Num(i)
  ELSE IndentOf(line, i + 1)

\* lines.reduce(..., Infinity): Undefined stands for Infinity
RECURSIVE MinIndentLength(_, _)
MinIndentLength(lines, acc) ==
  IF lines = <<>> THEN acc
  ELSE LET n == IndentOf(Head(lines), 0)
           next == IF ~n.def THEN acc
                   ELSE IF ~acc.def THEN n
                   ELSE Num(Min(n.v, acc.v))
       IN  MinIndentLength(Tail(lines), next)

\* dedent(text)
Dedent(text) ==
  With(SplitNL(text), LAMBDA lines :
  With(MinIndentLength(lines, Undefined), LAMBDA m :
    IF m.def
      THEN JoinNL([k \in 1..Len(lines) |-> SliceJS(lines[k], Num(m.v), Undefined)])
    ELSE text))

(***************************************************************************)
(* node:fs.  files maps the absolute path of every regular file to its     *)
(* content; the directories are the proper prefixes of those paths.        *)
(***************************************************************************)
IsFile(files, path) == path \in DOMAIN files

IsDirectory(files, path) ==
  \E f \in DOMAIN files : Len(f) > Len(path) /\ SubSeq(f, 1, Len(path)) = path

\* fs.existsSync
ExistsSync(files, path) == IsFile(files, path) \/ IsDirectory(files, path)

\* fs.readFileSync returns files[path] when IsFile(files, path) and throws
\* (EISDIR) on a directory
ReadFileSync(files, path) == files[path]

(***************************************************************************)
(* gray-matter: matter(content).content, for a front matter block whose    *)
(* YAML parses.                                                            *)
(***************************************************************************)
\* the least k >= i with str[k] = "\n" and str[k + 1] = "---", 0 for none
RECURSIVE CloseIndex(_, _)
CloseIndex(str, i) ==
  IF i + 1 > Len(str) THEN 0
  ELSE IF str[i] = "\n" /\ str[i + 1] = "---" THEN i
  ELSE CloseIndex(str, i + 1)

Matter(content) ==
  IF content = <<>> \/ content[1] # "---" THEN content
  ELSE IF Len(content) >= 2 /\ content[2] = "-" THEN content
  ELSE LET str == Tail(content)
           k == CloseIndex(str, 1)
           rest == From(str, k + 2)
           r1 == IF rest # <<>> /\ rest[1] = "\r" THEN Tail(rest) ELSE rest
           r2 == IF r1 # <<>> /\ r1[1] = "\n" THEN Tail(r1) ELSE r1
       IN  IF k = 0 THEN <<>> ELSE r2

(***************************************************************************)
(* includesRE = /<!--\s*@include:\s*(.*?)\s*-->/g and content.replace.     *)
(***************************************************************************)
\* the least position >= i of t that holds no whitespace, Len(t) + 1 for none
RECURSIVE SkipWS(_, _)
SkipWS(t, i) ==
  IF i <= Len(t) /\ IsWS(t[i]) THEN SkipWS(t, i + 1) ELSE i

\* The match of includesRE that starts at position i of t: [ok, e, m1], e
\* the position of its "-->" and m1 the capture.  The lazy (.*?) stops at
\* the first "-->", and holds no line terminator; the \s* around it take the
\* whitespace, line terminators included.
IncludeMatchAt(t, i) ==
  LET a1 == SkipWS(t, i + 1)
      a == SkipWS(t, a1 + 1)
      j == IndexFrom(t, "-->", a)
      m1 == TrimEnd(SubSeq(t, a, j - 1))
      ok == /\ t[i] = "<!--"
            /\ a1 <= Len(t) /\ t[a1] = "@include:"
            /\ j <= Len(t)
            /\ \A k \in 1..Len(m1) : IsDot(m1[k])
  IN  [ok |-> ok, e |-> j, m1 |-> IF ok THEN m1 ELSE <<>>]

\* the matches of the global pattern from position i on, left to right,
\* each search starting after the match before: [s, e, m1]
RECURSIVE IncludeMatches(_, _)
IncludeMatches(t, i) ==
  IF i > Len(t) THEN <<>>
  ELSE With(IncludeMatchAt(t, i), LAMBDA r :
         IF r.ok THEN <<[s |-> i, e |-> r.e, m1 |-> r.m1]>>
                        \o IncludeMatches(t, r.e + 1)
         ELSE IncludeMatches(t, i + 1))

\* String.prototype.replace: the text from position i on, with match k, k+1,
\* ... of ms replaced by repl[k], repl[k+1], ...
RECURSIVE ReplaceFrom(_, _, _, _, _)
ReplaceFrom(t, ms, repl, k, i) ==
  IF k > Len(ms) THEN From(t, i)
  ELSE SubSeq(t, i, ms[k].s - 1) \o repl[k]
         \o ReplaceFrom(t, ms, repl, k + 1, ms[k].e + 1)

(***************************************************************************)
(* processIncludes.  env = [srcDir, filePath, stripFrontmatter, files].    *)
(* The result is [out, inc]: the returned text and the paths pushed on the *)
(* includes array, in the order of the pushes.                             *)
(***************************************************************************)
\* a resolution that takes every relative path from the source root
IncludePathFromRoot(m1, env) ==
  PathJoin(env.srcDir,
           IF m1 # <<>> /\ m1[1] = "@"
             THEN From(m1, IF Len(m1) >= 2 /\ m1[2] = "/" THEN 3 ELSE 2)
           ELSE m1)

\* includePath of the callback, from m1 with its meta suffix removed
IncludePath(m1, env) ==
  IF m1 # <<>> /\ m1[1] = "@"
    THEN PathJoin(env.srcDir,
                  From(m1, IF Len(m1) >= 2 /\ m1[2] = "/" THEN 3 ELSE 2))
  ELSE PathJoin(PathDirname(env.filePath), m1)

\* a region selection that keeps the two marker lines of the region
IncludeRegionWithMarkers(content, region) ==
  IF region = <<>> THEN content
  ELSE With(SplitCRNL(content), LAMBDA lines :
       With(FindRegion(lines, Tail(region)), LAMBDA regionData :
         IF regionData.found
           THEN JoinNL(SliceJS(lines, Num(regionData.start - 1),
                               Num(regionData.end + 1)))
         ELSE content))

\* a region selection that selects nothing when the region is not found
IncludeRegionOrNothing(content, region) ==
  IF region = <<>> THEN content
  ELSE With(SplitCRNL(content), LAMBDA lines :
       With(FindRegion(lines, Tail(region)), LAMBDA regionData :
         IF regionData.found
           THEN JoinNL(SliceJS(lines, Num(regionData.start), Num(regionData.end)))
         ELSE <<>>))

\* "Handle region selection": the content after it
IncludeRegion(content, region) ==
  IF region = <<>> THEN content
  ELSE With(SplitCRNL(content), LAMBDA lines :
       With(FindRegion(lines, Tail(region)), LAMBDA regionData :
         IF regionData.found
           THEN JoinNL(SliceJS(lines, Num(regionData.start), Num(regionData.end)))
         ELSE content))

\* "Handle line range selection": the content after it
IncludeRange(content, range) ==
  IF ~range.found THEN content
  ELSE LET lines == SplitCRNL(content)
           start == IF range.startLine # <<>>
                      THEN Num(ParseInt(range.startLine) - 1) ELSE Undefined
           end == IF range.endLine # <<>>
                    THEN Num(ParseInt(range.endLine)) ELSE Undefined
       IN  JoinNL(SliceJS(lines, start, end))

\* the truthiness of an option value: the stripFrontmatter option is "true",
\* "false" or "undefined" (not given)
Truthy(v) == v = "true"

\* range, region, hasMeta, and m1 with the meta information sliced off
IncludeMeta(m1) ==
  With(RangeMatch(m1), LAMBDA range :
  With(RegionMatch(m1), LAMBDA region :
  With(region # <<>> \/ range.found, LAMBDA hasMeta :
    [range |-> range, region |-> region, hasMeta |-> hasMeta,
     path |-> IF hasMeta
                THEN DropLastChars(m1, CharLen(region) + CharLen(range.all))
              ELSE m1])))

\* the content a directive selects from its file, before the recursion
IncludeContent(raw, region, range, hasMeta, includePath, env) ==
  With(IncludeRange(IncludeRegion(raw, region), range), LAMBDA c :
    IF ~hasMeta /\ PathExtname(includePath) = <<".", "md">>
       /\ Truthy(env.stripFrontmatter)
      THEN Matter(c)
    ELSE c)

\* the file the callback reads for the capture m1
IncludeTarget(m1, env) == IncludePath(IncludeMeta(m1).path, env)

\* a catch clause that drops the directive
IncludeErrorEmpty(m) == <<>>

\* the catch clause of the callback: the match is returned as it is
IncludeError(m) == m

\* History of a call, kept beside its result: the positions of the result
\* where a substituted content borders the text around it.  Replacement k of
\* rs lands at offset o1 of the result; c is a position of cuts when a border
\* lies between the lexemes c and c + 1.
RECURSIVE CutsFrom(_, _, _, _, _)
CutsFrom(ms, rs, k, i, o) ==
  IF k > Len(ms) THEN {}
  ELSE LET o1 == o + (ms[k].s - i)
           n == Len(rs[k].out)
       IN  (IF rs[k].subst THEN {o1, o1 + n} \cup {o1 + c : c \in rs[k].cuts}
            ELSE {})
           \cup CutsFrom(ms, rs, k + 1, ms[k].e + 1, o1 + n)

SetMax(S) == IF S = {} THEN 0 ELSE CHOOSE x \in S : \A y \in S : y <= x

RECURSIVE ProcessIncludes(_, _)

\* a callback that returns the content it selected as it is
ReturnContent(content, env) ==
  [out |-> content, inc |-> <<>>, allRead |-> TRUE, depth |-> 0, cuts |-> {}]

\* "Recursively process includes in the content"
Recurse(content, env) == ProcessIncludes(content, env)

\* a callback that records the path after the recursion
PushedAfter(nestedInc, includePath) == nestedInc \o <<includePath>>

\* includes.push(includePath) comes before the recursion: the path, then
\* the paths nestedInc the recursion records
Pushed(nestedInc, includePath) == <<includePath>> \o nestedInc

\* The replacer callback of processIncludes for the match m with capture m1:
\* [out, inc], and as history subst (the directive was substituted), allRead
\* (so was every directive met below it), depth (the calls of
\* processIncludes nested below it) and cuts.
IncludeCallback(m, m1, env) ==
  IF m1 = <<>>
    THEN [out |-> m, inc |-> <<>>, subst |-> FALSE, allRead |-> FALSE,
          depth |-> 0, cuts |-> {}]
  ELSE
    With(IncludeMeta(m1), LAMBDA meta :
    With(IncludePath(meta.path, env), LAMBDA includePath :
      IF ~ExistsSync(env.files, includePath) \/ ~IsFile(env.files, includePath)
        THEN [out |-> IncludeError(m), inc |-> <<>>, subst |-> FALSE,
              allRead |-> FALSE, depth |-> 0, cuts |-> {}]
      ELSE
        With(Recurse(
               IncludeContent(ReadFileSync(env.files, includePath), meta.region,
                              meta.range, meta.hasMeta, includePath, env),
               env),
             LAMBDA nested :
          [out |-> nested.out, inc |-> Pushed(nested.inc, includePath),
           subst |-> TRUE, allRead |-> nested.allRead,
           depth |-> 1 + nested.depth, cuts |-> nested.cuts])))

\* processIncludes: [out, inc], with the history of its callbacks
ProcessIncludes(content, env) ==
  With(IncludeMatches(content, 1), LAMBDA ms :
  With([k \in 1..Len(ms) |->
          IncludeCallback(SubSeq(content, ms[k].s, ms[k].e), ms[k].m1, env)],
       LAMBDA rs :
    [out |-> ReplaceFrom(content, ms, [k \in 1..Len(ms) |-> rs[k].out], 1, 1),
     inc |-> Flatten([k \in 1..Len(ms) |-> rs[k].inc]),
     allRead |-> \A k \in 1..Len(ms) : rs[k].allRead,
     depth |-> SetMax({rs[k].depth : k \in 1..Len(ms)}),
     cuts |-> CutsFrom(ms, rs, 1, 1, 0)]))

\* -------------------------------------------------------------------------
\* rawPathRegexp and rawPathToToken.
\*   ^(.+?(?:\.([a-z0-9]+))?)(#[\w-]+)?
\*    (?: ?{(\d+(?:[,-]\d+)*)? ?(\S+)? ?(\S+)?})? ?(?:\[(.+)\])?$
\* The pattern is matched from left to right; every stage below tries its
\* alternatives in the order of the backtracking search (a greedy part its
\* longest match first, an optional part present before absent) and keeps
\* the first one after which the rest of the pattern matches.
\* -------------------------------------------------------------------------
NoToken == [ok |-> FALSE, fpEnd |-> 0, extension |-> <<>>, region |-> <<>>,
            lines |-> <<>>, lang |-> <<>>, attrs |-> <<>>, title |-> <<>>]

\* the end of the longest run of lexemes of the class P that starts at
\* position i, i - 1 when there is none
RunEndOf(x, i, P(_)) ==
  CHOOSE e \in (i - 1)..Len(x) :
    /\ \A k \in i..e : P(x[k])
    /\ e = Len(x) \/ ~P(x[e + 1])

\* \S
IsNonWS(c) == ~IsWS(c)

\* a match, or else another
OrElse(r, other) == IF r.ok THEN r ELSE other

\* " ?(?:\[(.+)\])?$" from position i
TitleStage(x, i) ==
  With(Len(x), LAMBDA n :
  With(IF i <= n /\ x[i] = " " THEN i + 1 ELSE i, LAMBDA j :
    IF j = n + 1 THEN [NoToken EXCEPT !.ok = TRUE]
    ELSE IF j <= n /\ x[j] = "[" /\ x[n] = "]" /\ n - j >= 2
      THEN [NoToken EXCEPT !.ok = TRUE, !.title = SubSeq(x, j + 1, n - 1)]
    ELSE NoToken))

\* "(\S+)?}" and the rest, the attributes being x[p..e] or shorter: the
\* greedy quantifier gives lexemes back one at a time
RECURSIVE AttrsUpTo(_, _, _)
AttrsUpTo(x, p, e) ==
  IF e < p - 1 THEN NoToken
  ELSE With(IF e + 1 <= Len(x) /\ x[e + 1] = "}" THEN TitleStage(x, e + 2)
            ELSE NoToken,
            LAMBDA r : IF r.ok THEN [r EXCEPT !.attrs = SubSeq(x, p, e)]
                       ELSE AttrsUpTo(x, p, e - 1))

\* "(\S+)?}" and the rest, the attributes starting at position p
AttrsFrom(x, p) == AttrsUpTo(x, p, RunEndOf(x, p, IsNonWS))

\* " ?(\S+)?}" and the rest
AttrsStage(x, i) ==
  OrElse(IF i <= Len(x) /\ x[i] = " " THEN AttrsFrom(x, i + 1) ELSE NoToken,
         AttrsFrom(x, i))

\* "(\S+)? ?(\S+)?}" and the rest, the language being x[p..e] or shorter
RECURSIVE LangUpTo(_, _, _)
LangUpTo(x, p, e) ==
  IF e < p - 1 THEN NoToken
  ELSE With(AttrsStage(x, e + 1),
            LAMBDA r : IF r.ok THEN [r EXCEPT !.lang = SubSeq(x, p, e)]
                       ELSE LangUpTo(x, p, e - 1))

\* "(\S+)? ?(\S+)?}" and the rest, the language starting at position p
LangFrom(x, p) == LangUpTo(x, p, RunEndOf(x, p, IsNonWS))

\* " ?(\S+)? ?(\S+)?}" and the rest
LangStage(x, i) ==
  OrElse(IF i <= Len(x) /\ x[i] = " " THEN LangFrom(x, i + 1) ELSE NoToken,
         LangFrom(x, i))

\* \d+(?:[,-]\d+)* matches x[i..e]
IsLineSpec(x, i, e) ==
  /\ i <= e
  /\ IsDigit(x[i]) /\ IsDigit(x[e])
  /\ \A k \in i..e : IsDigit(x[k]) \/ x[k] \in {",", "-"}
  /\ \A k \in i..(e - 1) : IsDigit(x[k]) \/ IsDigit(x[k + 1])

\* "(\d+(?:[,-]\d+)*)? ?(\S+)? ?(\S+)?}" and the rest, the line
\* specification being x[i..e] or shorter
RECURSIVE LinesUpTo(_, _, _)
LinesUpTo(x, i, e) ==
  IF e < i - 1 THEN NoToken
  ELSE With(IF e = i - 1 \/ IsLineSpec(x, i, e) THEN LangStage(x, e + 1)
            ELSE NoToken,
            LAMBDA r : IF r.ok THEN [r EXCEPT !.lines = SubSeq(x, i, e)]
                       ELSE LinesUpTo(x, i, e - 1))

\* the same from the position after the "{"
LinesStage(x, i) == LinesUpTo(x, i, Len(x))

\* "{...}" and the rest, the "{" at position j
BraceAt(x, j) ==
  IF j <= Len(x) /\ x[j] = "{" THEN LinesStage(x, j + 1) ELSE NoToken

\* "(?: ?{...})?" and the rest
BraceStage(x, i) ==
  OrElse(IF i <= Len(x) /\ x[i] = " " THEN BraceAt(x, i + 1) ELSE NoToken,
         OrElse(BraceAt(x, i), TitleStage(x, i)))

\* "(#[\w-]+)?" and the rest, the region being x[i..e] or shorter, and
\* absent when not even "#" and one lexeme fit
RECURSIVE RegionUpTo(_, _, _)
RegionUpTo(x, i, e) ==
  IF e < i + 1 THEN BraceStage(x, i)
  ELSE With(BraceStage(x, e + 1),
            LAMBDA r : IF r.ok THEN [r EXCEPT !.region = SubSeq(x, i, e)]
                       ELSE RegionUpTo(x, i, e - 1))

\* "(#[\w-]+)?" and the rest
RegionStage(x, i) ==
  RegionUpTo(x, i, IF i <= Len(x) /\ x[i] = "#"
                     THEN RunEndOf(x, i + 1, IsWDash) ELSE i)

\* "(?:\.([a-z0-9]+))?" and the rest, the extension being x[i + 1..e] or
\* shorter, and absent when not even "." and one lexeme fit; the file path
\* ends where the extension does
RECURSIVE ExtUpTo(_, _, _)
ExtUpTo(x, i, e) ==
  IF e < i + 1 THEN [RegionStage(x, i) EXCEPT !.fpEnd = i - 1]
  ELSE With(RegionStage(x, e + 1),
            LAMBDA r : IF r.ok THEN [r EXCEPT !.fpEnd = e,
                                              !.extension = SubSeq(x, i + 1, e)]
                       ELSE ExtUpTo(x, i, e - 1))

\* "(?:\.([a-z0-9]+))?" and the rest
ExtStage(x, i) ==
  ExtUpTo(x, i, IF i <= Len(x) /\ x[i] = "."
                  THEN RunEndOf(x, i + 1, IsLowerAlnum) ELSE i)

\* "^(.+?" and the rest, the lazy quantifier taking l lexemes or more
RECURSIVE FilepathFrom(_, _)
FilepathFrom(x, l) ==
  IF l > Len(x) \/ ~IsDot(x[l]) THEN NoToken
  ELSE OrElse(ExtStage(x, l + 1), FilepathFrom(x, l + 1))

\* rawPathToToken(rawPath): the lazy ".+?" takes the least number of
\* lexemes after which the rest matches; every capture is "" when the
\* pattern does not match
RawPathToToken(rawPath) ==
  With(FilepathFrom(rawPath, 1), LAMBDA r :
    [filepath |-> SubSeq(rawPath, 1, r.fpEnd), extension |-> r.extension,
     region |-> r.region, lines |-> r.lines, lang |-> r.lang,
     attrs |-> r.attrs, title |-> r.title])

(***************************************************************************)
(* snippetRE = /^<<<\s*(.*?)$/gm and processSnippets.                       *)
(***************************************************************************)
\* the least position >= i of t that holds a line terminator, Len(t) + 1
\* for none
RECURSIVE LineEndFrom(_, _)
LineEndFrom(t, i) ==
  IF i > Len(t) \/ t[i] \in LineTerm THEN i ELSE LineEndFrom(t, i + 1)

\* The match of snippetRE that starts at position i of t: [ok, e, rawPath].
\* "^" is the start of a line; the greedy \s* runs over whitespace and line
\* terminators alike; the capture then runs to the end of its line.
SnippetMatchAt(t, i) ==
  With(SkipWS(t, i + 1), LAMBDA a :
  With(LineEndFrom(t, a) - 1, LAMBDA e :
  With(t[i] = "<<<" /\ (i = 1 \/ t[i - 1] \in LineTerm), LAMBDA ok :
    [ok |-> ok, e |-> e, rawPath |-> IF ok THEN SubSeq(t, a, e) ELSE <<>>])))

RECURSIVE SnippetMatches(_, _)
SnippetMatches(t, i) ==
  IF i > Len(t) THEN <<>>
  ELSE With(SnippetMatchAt(t, i), LAMBDA r :
         IF r.ok THEN <<[s |-> i, e |-> r.e, m1 |-> r.rawPath]>>
                        \o SnippetMatches(t, r.e + 1)
         ELSE SnippetMatches(t, i + 1))

\* snippetPath of the callback
SnippetPath(atPresent, filepath, env) ==
  IF atPresent THEN PathJoin(env.srcDir, filepath)
  ELSE PathResolve(PathDirname(env.filePath), filepath)

\* a region selection that filters the end pattern only
SnippetRegionKeepStarts(content, region) ==
  IF region = <<>> THEN content
  ELSE With(SplitNL(content), LAMBDA contentLines :
       With(FindRegion(contentLines, Tail(region)), LAMBDA regionData :
         IF regionData.found
           THEN Dedent(JoinNL(SelectSeq(
                  SliceJS(contentLines, Num(regionData.start), Num(regionData.end)),
                  LAMBDA l : ~MarkerTest(Markers[regionData.re], "end", l))))
         ELSE content))

\* "Handle region selection" of processSnippets: the content after it
SnippetRegion(content, region) ==
  IF region = <<>> THEN content
  ELSE With(SplitNL(content), LAMBDA contentLines :
       With(FindRegion(contentLines, Tail(region)), LAMBDA regionData :
         IF regionData.found
           THEN Dedent(JoinNL(SelectSeq(
                  SliceJS(contentLines, Num(regionData.start), Num(regionData.end)),
                  LAMBDA l : ~(MarkerTest(Markers[regionData.re], "start", l)
                               \/ MarkerTest(Markers[regionData.re], "end", l)))))
         ELSE content))

\* an info string with the attributes before the title
SnippetInfoAttrsFirst(tok) ==
  Trim((IF tok.lang # <<>> THEN tok.lang ELSE tok.extension)
       \o (IF tok.lines # <<>> THEN <<"{">> \o tok.lines \o <<"}">> ELSE <<>>)
       \o (IF tok.attrs # <<>> THEN <<" ">> \o tok.attrs ELSE <<>>)
       \o (IF tok.title # <<>> THEN <<"[">> \o tok.title \o <<"]">> ELSE <<>>))

\* "Create code block info string"
SnippetInfo(tok) ==
  Trim((IF tok.lang # <<>> THEN tok.lang ELSE tok.extension)
       \o (IF tok.lines # <<>> THEN <<"{">> \o tok.lines \o <<"}">> ELSE <<>>)
       \o (IF tok.title # <<>> THEN <<"[">> \o tok.title \o <<"]">> ELSE <<>>)
       \o (IF tok.attrs # <<>> THEN <<" ">> \o tok.attrs ELSE <<>>))

\* the lexeme of the three backquotes that open and close a fenced code block
Fence == "fence3"

\* the catch clause of the callback: the match is returned as it is
SnippetError(m) == m

\* "Handle @ prefix first, then parse the rest": [atPresent, tok]
SnippetToken(rawPath) ==
  With(Trim(rawPath), LAMBDA cleanPath :
  With(cleanPath # <<>> /\ cleanPath[1] = "@", LAMBDA atPresent :
    [atPresent |-> atPresent,
     tok |-> RawPathToToken(IF atPresent THEN Tail(cleanPath) ELSE cleanPath)]))

\* the file the callback reads for the capture rawPath
SnippetTarget(rawPath, env) ==
  With(SnippetToken(rawPath), LAMBDA t : SnippetPath(t.atPresent, t.tok.filepath, env))

\* the replacer callback of processSnippets for the match m with capture
\* rawPath
SnippetCallback(m, rawPath, env) ==
  IF rawPath = <<>> THEN [out |-> m, inc |-> <<>>]
  ELSE
    With(SnippetToken(rawPath), LAMBDA t :
    With(SnippetPath(t.atPresent, t.tok.filepath, env), LAMBDA snippetPath :
      IF ~ExistsSync(env.files, snippetPath) \/ ~IsFile(env.files, snippetPath)
        THEN [out |-> SnippetError(m), inc |-> <<>>]
      ELSE
        [out |-> <<Fence>> \o SnippetInfo(t.tok) \o <<"\n">>
                   \o SnippetRegion(
                        NormalizeCRLF(ReadFileSync(env.files, snippetPath)),
                        t.tok.region)
                   \o <<"\n", Fence>>,
         inc |-> <<snippetPath>>]))

\* a resolver in which one failing directive undoes the others: the text
\* comes back as it was unless every directive of it is expanded
ProcessSnippetsAllOrNothing(content, env) ==
  With(SnippetMatches(content, 1), LAMBDA ms :
  With([k \in 1..Len(ms) |->
          SnippetCallback(SubSeq(content, ms[k].s, ms[k].e), ms[k].m1, env)],
       LAMBDA rs :
    IF \E k \in 1..Len(ms) : rs[k].inc = <<>>
      THEN [out |-> content, inc |-> <<>>]
    ELSE
    [out |-> ReplaceFrom(content, ms, [k \in 1..Len(ms) |-> rs[k].out], 1, 1),
     inc |-> Flatten([k \in 1..Len(ms) |-> rs[k].inc])]))

\* processSnippets: [out, inc] as for ProcessIncludes
ProcessSnippets(content, env) ==
  With(SnippetMatches(content, 1), LAMBDA ms :
  With([k \in 1..Len(ms) |->
          SnippetCallback(SubSeq(content, ms[k].s, ms[k].e), ms[k].m1, env)],
       LAMBDA rs :
    [out |-> ReplaceFrom(content, ms, [k \in 1..Len(ms) |-> rs[k].out], 1, 1),
     inc |-> Flatten([k \in 1..Len(ms) |-> rs[k].inc])]))

(***************************************************************************)
(* fromMarkdown(text).children, as far as the walker depends on it: the    *)
(* top-level blocks of the text.  A line that begins with "<!--" opens an  *)
(* html block that runs through the first line holding "-->"; a fence line *)
(* opens a code block that runs through the closing fence line; any other  *)
(* run of non-blank lines is a paragraph with one text child.              *)
(***************************************************************************)
HtmlNode(v) == [type |-> "html", value |-> v, child |-> "none"]

\* a paragraph whose only child is a text node of value v
ParagraphNode(v) == [type |-> "paragraph", value |-> v, child |-> "text"]

CodeNode(v) == [type |-> "code", value |-> v, child |-> "none"]

Contains(line, c) == \E i \in 1..Len(line) : line[i] = c

StartsWith(line, c) == TrimStart(line) # <<>> /\ Head(TrimStart(line)) = c

\* the least k in from..Len(lines) with P(lines[k]), Len(lines) + 1 for none
FirstLine(lines, from, P(_)) ==
  CHOOSE k \in from..(Len(lines) + 1) :
    /\ k = Len(lines) + 1 \/ P(lines[k])
    /\ \A j \in from..(k - 1) : ~P(lines[j])

RECURSIVE Blocks(_)
Blocks(lines) ==
  IF lines = <<>> THEN <<>>
  ELSE IF Trim(Head(lines)) = <<>> THEN Blocks(Tail(lines))
  ELSE IF StartsWith(Head(lines), "<!--") THEN
    LET closes(l) == Contains(l, "-->")
        n == Min(FirstLine(lines, 1, closes), Len(lines))
    IN  <<HtmlNode(JoinNL(SubSeq(lines, 1, n)))>> \o Blocks(From(lines, n + 1))
  ELSE IF StartsWith(Head(lines), Fence) THEN
    LET fence(l) == StartsWith(l, Fence)
        n == FirstLine(lines, 2, fence)
    IN  <<CodeNode(JoinNL(SubSeq(lines, 2, n - 1)))>> \o Blocks(From(lines, n + 1))
  ELSE
    LET stops(l) == Trim(l) = <<>> \/ StartsWith(l, "<!--") \/ StartsWith(l, Fence)
        n == FirstLine(lines, 2, stops) - 1
    IN  <<ParagraphNode(JoinNL([k \in 1..n |-> Trim(lines[k])]))>>
          \o Blocks(From(lines, n + 1))

FromMarkdown(text) == Blocks(SplitCRNL(text))

(***************************************************************************)
(* The file system and the documents the plugin is run on.                 *)
(***************************************************************************)
\* the text of an include directive and of a snippet line
Inc(payload) == <<"<!--", "@include:", " ">> \o payload \o <<"-->">>

Snip(payload) == <<"<<<", " ">> \o payload

Md(name) == <<name, ".", "md">>

Js(name) == <<name, ".", "js">>

\* the payload  ./name  and  @/dir/name
Here(name) == <<".", "/">> \o name

At(dir, name) == <<"@", "/">> \o (IF dir = "" THEN <<>> ELSE <<dir, "/">>) \o name

DocsDir == << <<"w">>, <<"docs">> >>

GuideDir == DocsDir \o << <<"guide">> >>

PartsDir == DocsDir \o << <<"parts">> >>

CodeDir == DocsDir \o << <<"code">> >>

\* the line-range suffix {a,b}
RangeText(a, b) == <<"{">> \o a \o <<",">> \o b \o <<"}">>

\* the files every file system of the model holds
BaseFiles ==
  (GuideDir \o <<Md("a")>>) :> <<"ga">>
  @@ (DocsDir \o <<Md("a")>>) :> <<"da">>
  @@ (PartsDir \o <<Md("a")>>) :> <<"pa">>
  @@ (PartsDir \o <<Md("n")>>) :> (Inc(Here(Md("a"))) \o <<"\n", "n">>)
  @@ (GuideDir \o <<Md("b")>>) :>
       <<"l1", "\r", "\n", "l2", "\n", "l3", "\n", "l4", "\n", "l5">>
  @@ (GuideDir \o <<Md("r")>>) :>
       JoinNL(<< <<"pre">>,
                 <<"<!--", " ", "#", "region", " ", "a", " ", "-->">>,
                 <<"in1">>,
                 <<"<!--", " ", "#", "region", " ", "b", " ", "-->">>,
                 <<"in2">>,
                 <<"<!--", " ", "#", "end", "region", " ", "b", " ", "-->">>,
                 <<"<!--", " ", "#", "end", "region", " ", "a", " ", "-->">>,
                 <<"post">> >>)
  @@ (GuideDir \o <<Md("fm")>>) :> <<"---", "\n", "t", "\n", "---", "\n", "body">>
  @@ (GuideDir \o <<Md("e")>>) :> <<>>
  @@ (GuideDir \o <<Md("h")>>) :>
       (<<"x", "\n", "<!--", "@include:", " ">> \o Here(Md("a")))
  @@ (GuideDir \o <<Md("two")>>) :>
       JoinNL(<<Inc(Here(Md("a"))), Inc(At("parts", Md("n"))),
                Inc(Here(Md("a"))), Inc(Here(Md("missing")))>>)
  @@ (GuideDir \o <<Md("sn")>>) :>
       (<<"intro", "\r", "\n", "\n">> \o Snip(At("code", Js("s"))))
  @@ (CodeDir \o <<Js("s")>>) :>
       <<"/", "/", " ", "pre", "\r", "\n",
         " ", " ", "/", "/", " ", "#", "region", " ", "a", "\r", "\n",
         " ", " ", " ", "f", "\r", "\n",
         " ", " ", "/", "/", " ", "#", "region", " ", "b", "\n",
         " ", " ", " ", " ", "g", "\n",
         " ", " ", "/", "/", " ", "#", "end", "region", " ", "b", "\n",
         " ", " ", "/", "/", " ", "#", "end", "region", " ", "a", "\n",
         "post">>
  @@ (CodeDir \o << <<"mk">> >>) :> <<"all", "\r", "\n", "\t", "cc">>
  @@ (GuideDir \o <<Md("t")>>) :> <<"t0">>

\* the lines a generated subject file is made of
LineKinds ==
  { <<" ", " ", "y">>,
    <<" ", "/", "/", " ", "#", "region", " ", "a">>,
    <<"/", "/", "#", "end", "region">>,
    <<"/", "/", " ", "#", "region", " ", "b">>,
    <<"<!--", " ", "#", "region", " ", "a", " ", "-->">> }

\* the most lines of a generated subject file
MaxLines == 3

\* the most top-level nodes of a generated document of several nodes
MaxNodes == 2

SeqsUpTo(S, n) == UNION {[1..k -> S] : k \in 0..n}

SubjectTexts == {JoinNL(ls) : ls \in SeqsUpTo(LineKinds, MaxLines)}

SubjectPath == GuideDir \o <<Md("t")>>

\* the file systems the plugin is run on: the base files, with the subject
\* file t.md holding any of the generated texts
SubjectFileSystems ==
  {[f \in DOMAIN BaseFiles |-> IF f = SubjectPath THEN c ELSE BaseFiles[f]] :
     c \in SubjectTexts}

\* the values of the stripFrontmatter option
StripOptions == {"true", "false", "undefined"}

IncTargets ==
  { Here(Md("a")), At("", Md("a")), <<"@">> \o Md("a"), <<".", ".", "/">> \o Md("a"),
    <<".", ".", "/", "parts", "/">> \o Md("a"),
    Here(Md("missing")), At("", Md("missing")), <<"@", "/", "parts">>,
    Here(Md("b")), Here(Md("r")), Here(Md("fm")), Here(Md("e")), Here(Md("h")),
    Here(Md("two")), At("parts", Md("n")), Here(Md("sn")), Here(Md("t")),
    <<"/", "w", "/", "docs", "/">> \o Md("a") }

IncSuffixes == {<<>>, <<"#", "a">>, <<"#", "b">>, <<"#", "zz">>}

\* the digit strings of the generated line ranges
RangeDigits ==
  {<<>>, <<"0">>, <<"1">>, <<"2">>, <<"4">>, <<"6">>, <<"1", "0">>, <<"0", "3">>}

RangeTargets ==
  {Here(Md("b")), Here(Md("r")) \o <<"#", "a">>, Here(Md("missing"))}

PairTargets ==
  {Here(Md("a")), Here(Md("missing")), Here(Md("missing")) \o <<"#", "a">>,
   Here(Md("two")), Here(Md("e"))}

\* the values of the generated top-level html nodes
HtmlTexts ==
  {Inc(t \o x) : t \in IncTargets, x \in IncSuffixes}
  \cup {Inc(t \o RangeText(a, b)) : t \in RangeTargets, a \in RangeDigits,
                                     b \in RangeDigits}
  \cup {Inc(t) \o <<" ">> \o Inc(u) : t \in PairTargets, u \in PairTargets}
  \cup { <<"<!--", " ", "@include:">> \o Here(Md("a")) \o <<" ", "-->">>,
         <<"<!--", "\n", "@include:", " ">> \o Here(Md("a")) \o <<"\n", "-->">>,
         <<"<!--", "@include:", "-->">>,
         <<"<!--", "@include:", " ", "-->">>,
         <<"<!--", " ", "note", " ", "-->">>,
         Inc(Here(Md("b")) \o <<"#", "zz">> \o RangeText(<<"2">>, <<"3">>)),
         Inc(Here(Md("h"))) \o <<" ", "-->">>,
         Inc(Here(Md("h")) \o <<"#", "zz">>) \o <<"-->">> }

SnipTargets ==
  { At("code", Js("s")), <<"@", "code", "/">> \o Js("s"),
    <<".", ".", "/", "code", "/">> \o Js("s"), At("code", <<"s">>),
    Here(Js("missing")), At("", Js("missing")), <<"@", "/", "code">>,
    <<"/", "w", "/", "docs", "/">> \o Md("a"),
    Here(Md("a")), At("", Md("a")), Here(Md("t")), Here(Md("two")),
    Here(Md("sn")), At("code", <<"mk">>) }

SnipSuffixes ==
  { <<>>, <<"#", "a">>, <<"#", "zz">>,
    <<"{", "1", ",", "2", "}">>, <<"{", "1", "-", "2", ",", "4", "}">>,
    <<"{", "ts", "}">>, <<"{", "1", ",", "2", " ", "ts", "}">>,
    <<"{", "1", ",", "2", " ", "ts", " ", "k", "}">>,
    <<"[", "T", "]">>, <<"{", "ts", "}", "[", "T", "]">>,
    <<"#", "a", "{", "1", ",", "2", " ", "ts", " ", "k", "}", "[", "T", "]">>,
    <<"{", " ", " ", "k", "}">>, <<" ", "{", "ts", "}">>,
    <<"{", "ts", "}", " ", "[", "T", "]">>, <<"[", "T", "]", "{", "ts", "}">> }

\* the values of the text children of the generated paragraphs
ParagraphTexts ==
  {Snip(t \o x) : t \in SnipTargets, x \in SnipSuffixes}
  \cup { <<"hello">>, <<"<<<">>, <<"x", " ", "<<<", " ">> \o At("code", Js("s")),
         <<"see", "\n">> \o Snip(At("code", Js("s")) \o <<"#", "a">>),
         Snip(At("code", Js("s"))) \o <<"\n">> \o Snip(Here(Js("missing"))),
         <<"<<<", "\n">> \o At("", Md("a")) }

\* the nodes of the generated documents of several nodes
CoreNodes ==
  { HtmlNode(Inc(Here(Md("a")))), HtmlNode(Inc(Here(Md("e")))),
    HtmlNode(Inc(Here(Md("sn")))), HtmlNode(Inc(Here(Md("two")))),
    ParagraphNode(Snip(At("code", Js("s")))), ParagraphNode(Snip(Here(Js("missing")))),
    ParagraphNode(<<"hello">>), CodeNode(<<"c">>) }

DocumentPaths == {GuideDir \o <<Md("main")>>, DocsDir \o <<Md("index")>>}

\* the parsed documents run on the base files: [path, children]
Documents ==
  {[path |-> p, children |-> c] :
     p \in DocumentPaths,
     c \in {<<HtmlNode(v)>> : v \in HtmlTexts}
            \cup {<<ParagraphNode(v)>> : v \in ParagraphTexts}}
  \cup {[path |-> GuideDir \o <<Md("main")>>, children |-> c] :
          c \in SeqsUpTo(CoreNodes, MaxNodes)}

\* the parsed documents run on a file system with a generated subject file
SubjectDocuments ==
  {[path |-> GuideDir \o <<Md("main")>>, children |-> <<n>>] :
     n \in {HtmlNode(Inc(Here(Md("t")) \o <<"#", "a">>)),
            HtmlNode(Inc(Here(Md("t")) \o <<"#", "a">>
                         \o RangeText(<<"1">>, <<"2">>))),
            ParagraphNode(Snip(Here(Md("t")) \o <<"#", "a">>))}}

\* the parsed documents run with frontmatter stripping off or not configured
FrontmatterDocuments ==
  {[path |-> GuideDir \o <<Md("main")>>, children |-> <<HtmlNode(Inc(t))>>] :
     t \in {Here(Md("fm")), Here(Md("fm")) \o <<"#", "zz">>, Here(Md("a")),
            Here(Md("missing"))}}

DocumentsFor(fs, strip) ==
  IF fs # BaseFiles THEN SubjectDocuments
  ELSE IF strip = "true" THEN Documents
  ELSE FrontmatterDocuments

(***************************************************************************)
(* The transformer of remarkInclude: the walk over the tree of a document. *)
(***************************************************************************)
VARIABLES
  files,              \* the file system: absolute path -> content
  srcDir,             \* option srcDir
  stripFrontmatter,   \* option stripFrontmatter
  filePath,           \* file.path of the document being transformed
  tree,               \* root.children
  idx,                \* the offset of the next child of the root to visit
  inner,              \* the walk is inside the paragraph at offset idx
  includes,           \* the includes array of the transformer
  data,               \* file.data.includes
  pc,                 \* "idle", "root", "children" or "done"
  last,               \* the latest resolver call of this run (history):
                      \* its content, includes before it, and its result
  includesLastIndex,  \* includesRE.lastIndex
  snippetLastIndex,   \* snippetRE.lastIndex
  original,           \* root.children when the transformer was called (history)
  passed              \* the texts handed to processIncludes by this walk,
                      \* in the order of the calls (history)

\* the plugin object of llmstxt
VARIABLES
  generateLLMFriendlyDocsForEachPage,  \* the setting of that name
  isSsrBuild,         \* the flag of the closure
  pageContents,       \* the Map of the closure: relative path -> HTML
  hooked,             \* configResolved has injected transformHtml and buildEnd
  written,            \* the per-page outputs of the latest buildEnd since the
                      \* latest buildStart: a bag of [path, html]
  recorded,           \* the pages handed to transformHtml since the latest
                      \* buildStart, each with the HTML of the latest call
                      \* (history)
  earlier,            \* the paths recorded before the latest buildStart (history)
  lastHook            \* the latest hook call: its name, and whether it
                      \* called processPages (history)

\* dedent applied to a text
VARIABLES
  dText,              \* the text
  dOut                \* the results so far: <<>>, then <<dedent(text)>>, then
                      \* <<dedent(text), dedent(dedent(text))>>

remarkVars == <<files, srcDir, stripFrontmatter, filePath, tree, idx, inner,
                includes, data, pc, last, includesLastIndex, snippetLastIndex,
                original, passed>>

pluginVars == <<generateLLMFriendlyDocsForEachPage, isSsrBuild, pageContents,
                hooked, written, recorded, earlier, lastHook>>

dedentVars == <<dText, dOut>>

vars == <<remarkVars, pluginVars, dedentVars>>

\* the ProcessingOptions the visitor passes to the resolvers
Env == [srcDir |-> srcDir, filePath |-> filePath,
        stripFrontmatter |-> stripFrontmatter, files |-> files]

NoCall == [op |-> "none", content |-> <<>>, before |-> <<>>,
           res |-> [out |-> <<>>, inc |-> <<>>]]

Unset == [set |-> FALSE, includes |-> <<>>]

\* children.splice(index, 1, ...nodes), index counted from 0
Splice(children, index, nodes) ==
  SubSeq(children, 1, index) \o nodes \o From(children, index + 2)

\* RegExp.prototype.test of a global pattern whose matches from lastIndex on
\* are ms: the result and the lastIndex it leaves
RegExpTest(ms) ==
  IF ms = <<>> THEN [found |-> FALSE, lastIndex |-> 0]
  ELSE [found |-> TRUE, lastIndex |-> ms[1].e]

\* a visitor that leaves the position where the test left it
KeepLastIndex(lastIndex) == lastIndex

\* includesRE.lastIndex = 0 and snippetRE.lastIndex = 0 after a test that
\* succeeded and left the position lastIndex.  The resolver that runs next
\* keeps it there: content.replace with a global pattern sets the position
\* to 0, collects every match before it calls the replacer, so that the
\* nested calls of processIncludes start after the scan is over, and ends
\* with a failed exec that leaves 0.
ResetLastIndex(lastIndex) == 0

\* the latest hook call when no hook was called yet
NoHookCall == [op |-> "none", processed |-> FALSE]

\* llmstxt() has returned the plugin object: the setting is merged, the Map
\* is empty and the flag is false
PluginCreated ==
  /\ isSsrBuild = FALSE
  /\ pageContents = <<>>
  /\ hooked = FALSE
  /\ written = EmptyBag
  /\ recorded = <<>>
  /\ earlier = {}
  /\ lastHook = NoHookCall

\* dedent has not been called
DedentIdle == dText = <<>> /\ dOut = <<>>

\* no document is being transformed
RemarkIdle ==
  /\ srcDir = DocsDir
  /\ filePath = <<>>
  /\ tree = <<>>
  /\ idx = 0
  /\ inner = FALSE
  /\ includes = <<>>
  /\ data = Unset
  /\ pc = "idle"
  /\ last = NoCall
  /\ includesLastIndex = 0
  /\ snippetLastIndex = 0
  /\ original = <<>>
  /\ passed = <<>>

Init ==
  /\ \/ files = BaseFiles /\ stripFrontmatter \in StripOptions
     \/ files \in SubjectFileSystems /\ stripFrontmatter = "undefined"
  /\ RemarkIdle
  /\ generateLLMFriendlyDocsForEachPage = TRUE
  /\ PluginCreated
  /\ DedentIdle

\* the transformer is called on a parsed document
Transform(doc) ==
  /\ pc = "idle"
  /\ filePath' = doc.path
  /\ tree' = doc.children
  /\ idx' = 0
  /\ inner' = FALSE
  /\ includes' = <<>>
  /\ data' = Unset
  /\ last' = NoCall
  /\ original' = doc.children
  /\ passed' = <<>>
  /\ pc' = "root"
  /\ UNCHANGED <<pluginVars, dedentVars, files, srcDir, stripFrontmatter,
                 includesLastIndex, snippetLastIndex>>

\* the visitor on the root: it has no parent
VisitRoot ==
  /\ pc = "root"
  /\ pc' = "children"
  /\ UNCHANGED <<pluginVars, dedentVars, files, srcDir, stripFrontmatter,
                 filePath, tree, idx, inner, includes, data, last,
                 includesLastIndex, snippetLastIndex, original, passed>>

\* the visitor on a top-level html node
VisitHtml ==
  /\ pc = "children" /\ ~inner /\ idx < Len(tree)
  /\ tree[idx + 1].type = "html"
  /\ LET node == tree[idx + 1]
         t == RegExpTest(IncludeMatches(node.value, includesLastIndex + 1))
         processedValue == ProcessIncludes(node.value, Env)
     IN  IF t.found
           THEN /\ includesLastIndex' = ResetLastIndex(t.lastIndex)
                /\ includes' = includes \o processedValue.inc
                /\ tree' = IF processedValue.out # node.value
                             THEN Splice(tree, idx, FromMarkdown(processedValue.out))
                           ELSE tree
                /\ last' = [op |-> "include", content |-> node.value,
                            before |-> includes, res |-> processedValue]
                /\ passed' = Append(passed, node.value)
         ELSE /\ includesLastIndex' = t.lastIndex
              /\ UNCHANGED <<includes, tree, last, passed>>
  /\ idx' = idx + 1
  /\ UNCHANGED <<pluginVars, dedentVars, files, srcDir, stripFrontmatter,
                 filePath, inner, data, pc, snippetLastIndex, original>>

\* the visitor on a top-level paragraph: the walk goes on to its child
VisitParagraph ==
  /\ pc = "children" /\ ~inner /\ idx < Len(tree)
  /\ tree[idx + 1].type = "paragraph"
  /\ inner' = TRUE
  /\ UNCHANGED <<pluginVars, dedentVars, files, srcDir, stripFrontmatter,
                 filePath, tree, idx, includes, data, pc, last,
                 includesLastIndex, snippetLastIndex, original, passed>>

\* the visitor on the text child of the paragraph at offset idx
VisitText ==
  /\ pc = "children" /\ inner
  /\ tree[idx + 1].child = "text"
  /\ LET node == tree[idx + 1]
         t == RegExpTest(SnippetMatches(node.value, snippetLastIndex + 1))
         processedValue == ProcessSnippets(node.value, Env)
     IN  IF t.found
           THEN /\ snippetLastIndex' = ResetLastIndex(t.lastIndex)
                /\ includes' = includes \o processedValue.inc
                /\ tree' = IF processedValue.out # node.value
                             THEN [tree EXCEPT ![idx + 1] =
                                    [type |-> "paragraph", value |-> processedValue.out,
                                     child |-> "html"]]
                           ELSE tree
                /\ last' = [op |-> "snippet", content |-> node.value,
                            before |-> includes, res |-> processedValue]
         ELSE /\ snippetLastIndex' = t.lastIndex
              /\ UNCHANGED <<includes, tree, last>>
  /\ inner' = FALSE
  /\ idx' = idx + 1
  /\ UNCHANGED <<pluginVars, dedentVars, files, srcDir, stripFrontmatter,
                 filePath, data, pc, includesLastIndex, original, passed>>

\* the visitor on a top-level node that is neither html nor a paragraph
VisitOther ==
  /\ pc = "children" /\ ~inner /\ idx < Len(tree)
  /\ tree[idx + 1].type \notin {"html", "paragraph"}
  /\ idx' = idx + 1
  /\ UNCHANGED <<pluginVars, dedentVars, files, srcDir, stripFrontmatter,
                 filePath, tree, inner, includes, data, pc, last,
                 includesLastIndex, snippetLastIndex, original, passed>>

\* the walk is over: file.data.includes = includes
Attach ==
  /\ pc = "children" /\ ~inner /\ idx >= Len(tree)
  /\ data' = [set |-> TRUE, includes |-> includes]
  /\ pc' = "done"
  /\ UNCHANGED <<pluginVars, dedentVars, files, srcDir, stripFrontmatter,
                 filePath, tree, idx, inner, includes, last,
                 includesLastIndex, snippetLastIndex, original, passed>>

\* the transformer returns: the processor is ready for the next document
Return ==
  /\ pc = "done"
  /\ filePath' = <<>>
  /\ tree' = <<>>
  /\ idx' = 0
  /\ includes' = <<>>
  /\ data' = Unset
  /\ last' = NoCall
  /\ original' = <<>>
  /\ passed' = <<>>
  /\ pc' = "idle"
  /\ UNCHANGED <<pluginVars, dedentVars, files, srcDir, stripFrontmatter, inner,
                 includesLastIndex, snippetLastIndex>>

Next ==
  \/ \E doc \in DocumentsFor(files, stripFrontmatter) : Transform(doc)
  \/ VisitRoot
  \/ VisitHtml
  \/ VisitParagraph
  \/ VisitText
  \/ VisitOther
  \/ Attach
  \/ Return

Spec == Init /\ [][Next]_vars

(***************************************************************************)
(* dedent on the texts of up to MaxLines lines.                            *)
(***************************************************************************)
\* the lines of the texts: empty, of spaces and tabs only, indented by
\* spaces, by a tab, by both, and a line whose only other character is a
\* carriage return
DedentLines ==
  { <<>>, <<" ">>, <<" ", " ", " ">>, <<"\t">>, <<"x">>, <<" ", "x">>,
    <<" ", " ", "x", " ">>, <<"\t", " ", "x">>, <<" ", "\r">>,
    <<" ", " ", "y", " ", "z">> }

DedentTexts == {JoinNL(ls) : ls \in SeqsUpTo(DedentLines, MaxLines)}

DedentInit ==
  /\ files = BaseFiles /\ stripFrontmatter = "undefined"
  /\ RemarkIdle
  /\ generateLLMFriendlyDocsForEachPage = TRUE
  /\ PluginCreated
  /\ dText \in DedentTexts
  /\ dOut = <<>>

\* dedent(text)
DedentText ==
  /\ dOut = <<>>
  /\ dOut' = <<Dedent(dText)>>
  /\ UNCHANGED <<remarkVars, pluginVars, dText>>

\* dedent of the result
DedentAgain ==
  /\ Len(dOut) = 1
  /\ dOut' = Append(dOut, Dedent(dOut[1]))
  /\ UNCHANGED <<remarkVars, pluginVars, dText>>

DedentStep == DedentText \/ DedentAgain

DedentSpec == DedentInit /\ [][DedentStep]_vars

(***************************************************************************)
(* The plugin object of llmstxt: configResolved, buildStart and the hooks  *)
(* transformHtml and buildEnd that configResolved injects.  Relative paths *)
(* of pages are texts.                                                     *)
(***************************************************************************)
\* pageData.relativePath of the pages of the site
PagePaths ==
  { Md("index"), <<"guide", "/">> \o Md("index"), Md("guide"), Md("test") }

\* the rendered HTML of a page
PageHtml == {"h1", "h2"}

\* path.basename of a relative path
RelBasename(p) == From(p, LastIndexOf(p, "/", Len(p)) + 1)

\* path.dirname of a relative path
RelDirname(p) ==
  With(LastIndexOf(p, "/", Len(p)), LAMBDA i :
    IF i = 0 THEN <<".">> ELSE IF i = 1 THEN <<"/">> ELSE SubSeq(p, 1, i - 1))

\* normalizedPath of the loop of processPages
NormalizedPath(pagePath) ==
  IF /\ RelBasename(pagePath) = Md("index")
     /\ RelDirname(pagePath) # <<".">>
     /\ RelDirname(pagePath) # <<>>
    THEN RelDirname(pagePath) \o <<".", "md">>
  ELSE pagePath

\* the loop of processPages over the entries todo of the Map: the bag of
\* the prepared files, each with its path and the HTML it was made from
\* (the title and the order by title are left out)
RECURSIVE PreparedFiles(_, _)
PreparedFiles(pages, todo) ==
  IF todo = {} THEN EmptyBag
  ELSE With(CHOOSE p \in todo : TRUE, LAMBDA pagePath :
         SetToBag({[path |-> NormalizedPath(pagePath), html |-> pages[pagePath]]})
         (+) PreparedFiles(pages, todo \ {pagePath}))

\* generateLLMFriendlyPages: one output for every prepared file, at its path
GenerateLLMFriendlyPages(preparedFiles) == preparedFiles

\* processPages: the per-page outputs it produces
ProcessPages(pages, perPage, ssr) ==
  IF ssr THEN EmptyBag
  ELSE IF DOMAIN pages = {} THEN EmptyBag
  ELSE IF perPage
    THEN GenerateLLMFriendlyPages(PreparedFiles(pages, DOMAIN pages))
  ELSE EmptyBag

\* a hook that records the page in every build
RecordsAlways(ssr) == TRUE

\* the guard of the injected hooks: if (!isSsrBuild)
IsClientBuild(ssr) == ~ssr

\* a buildStart that keeps the Map
KeepPages(pages) == pages

\* pageContents.clear()
ClearPages(pages) == <<>>

\* pageContents.set(relativePath, code)
SetPage(pages, relativePath, code) ==
  [p \in DOMAIN pages \cup {relativePath} |->
     IF p = relativePath THEN code ELSE pages[p]]

PluginInit ==
  /\ files = BaseFiles /\ stripFrontmatter = "undefined"
  /\ RemarkIdle
  /\ generateLLMFriendlyDocsForEachPage \in BOOLEAN
  /\ PluginCreated
  /\ DedentIdle

\* configResolved, called once for the plugin object with build.ssr = ssr
ConfigResolved(ssr) ==
  /\ ~hooked
  /\ isSsrBuild' = ssr
  /\ hooked' = TRUE
  /\ lastHook' = [op |-> "configResolved", processed |-> FALSE]
  /\ UNCHANGED <<remarkVars, dedentVars, generateLLMFriendlyDocsForEachPage,
                 pageContents, written, recorded, earlier>>

\* buildStart
BuildStart ==
  /\ pageContents' = ClearPages(pageContents)
  /\ written' = EmptyBag
  /\ earlier' = earlier \cup DOMAIN recorded
  /\ recorded' = <<>>
  /\ lastHook' = [op |-> "buildStart", processed |-> FALSE]
  /\ UNCHANGED <<remarkVars, dedentVars, generateLLMFriendlyDocsForEachPage,
                 isSsrBuild, hooked>>

\* vitepressConfig.transformHtml(code, id, {pageData})
TransformHtml(relativePath, code) ==
  /\ hooked
  /\ pageContents' = IF IsClientBuild(isSsrBuild)
                       THEN SetPage(pageContents, relativePath, code)
                     ELSE pageContents
  /\ recorded' = SetPage(recorded, relativePath, code)
  /\ lastHook' = [op |-> "transformHtml", processed |-> FALSE]
  /\ UNCHANGED <<remarkVars, dedentVars, generateLLMFriendlyDocsForEachPage,
                 isSsrBuild, hooked, written, earlier>>

\* vitepressConfig.buildEnd(siteConfig)
BuildEnd ==
  /\ hooked
  /\ IF IsClientBuild(isSsrBuild)
       THEN /\ written' = ProcessPages(pageContents,
                                       generateLLMFriendlyDocsForEachPage, isSsrBuild)
            /\ lastHook' = [op |-> "buildEnd", processed |-> TRUE]
     ELSE /\ written' = written
          /\ lastHook' = [op |-> "buildEnd", processed |-> FALSE]
  /\ UNCHANGED <<remarkVars, dedentVars, generateLLMFriendlyDocsForEachPage,
                 isSsrBuild, hooked, pageContents, recorded, earlier>>

PluginNext ==
  \/ \E ssr \in BOOLEAN : ConfigResolved(ssr)
  \/ BuildStart
  \/ \E relativePath \in PagePaths, code \in PageHtml :
       TransformHtml(relativePath, code)
  \/ BuildEnd

PluginSpec == PluginInit /\ [][PluginNext]_vars

(***************************************************************************)
(* The properties.                                                         *)
(***************************************************************************)
\* the target of the include directive of capture m1 is no file that can be
\* read
MissingInclude(m1) == m1 # <<>> /\ ~IsFile(files, IncludeTarget(m1, Env))

MissingSnippet(rawPath) ==
  rawPath # <<>> /\ ~IsFile(files, SnippetTarget(rawPath, Env))

\* C1: a directive whose target file does not exist stands in the output of
\* its resolver exactly as it stood in the input, suffix included: the
\* output is the resolved text before the directive, the directive itself,
\* and the resolved text after it, whatever directives these hold.
C1_MissingDirectiveVerbatim ==
  /\ last.op = "include" =>
       LET ms == IncludeMatches(last.content, 1)
       IN  \A k \in 1..Len(ms) :
             MissingInclude(ms[k].m1) =>
               last.res.out =
                 ProcessIncludes(SubSeq(last.content, 1, ms[k].s - 1), Env).out
                 \o SubSeq(last.content, ms[k].s, ms[k].e)
                 \o ProcessIncludes(From(last.content, ms[k].e + 1), Env).out
  /\ last.op = "snippet" =>
       LET ms == SnippetMatches(last.content, 1)
       IN  \A k \in 1..Len(ms) :
             MissingSnippet(ms[k].m1) =>
               last.res.out =
                 ProcessSnippets(SubSeq(last.content, 1, ms[k].s - 1), Env).out
                 \o SubSeq(last.content, ms[k].s, ms[k].e)
                 \o ProcessSnippets(From(last.content, ms[k].e + 1), Env).out

\* an include resolution that left a missing directive with a #region suffix
\* in place and substituted another directive of the same text
C1_Witness ==
  /\ last.op = "include"
  /\ last.res.out # last.content
  /\ LET ms == IncludeMatches(last.content, 1)
     IN  \E k \in 1..Len(ms) :
           MissingInclude(ms[k].m1) /\ IncludeMeta(ms[k].m1).hasMeta

\* C2 as stated: when every directive met by a call of processIncludes, at
\* every depth, has a payload and names a file that exists, the output of
\* the call holds no include directive.
C2_NoDirectiveInOutput ==
  (last.op = "include" /\ last.res.allRead) =>
    IncludeMatches(last.res.out, 1) = <<>>

\* C2 as amended: under the same condition the call ends within as many
\* nested calls as there are files, and every directive that stands in the
\* input text or in the content of an included file is replaced, at every
\* depth: a directive of the output lies neither inside a piece of the
\* input text nor inside a substituted content, it runs across a border
\* between a substituted content and the text around it.
C2_DirectivesExpanded ==
  (last.op = "include" /\ last.res.allRead) =>
    /\ last.res.depth <= Cardinality(DOMAIN files)
    /\ LET ms == IncludeMatches(last.res.out, 1)
       IN  \A k \in 1..Len(ms) :
             \E c \in last.res.cuts : ms[k].s <= c /\ c < ms[k].e

\* a call that substituted a directive found inside an included file, all
\* of whose directives named files that exist
C2_Witness ==
  /\ last.op = "include"
  /\ last.res.allRead
  /\ last.res.depth >= 2
  /\ IncludeMatches(last.res.out, 1) = <<>>

\* The dependencies C3 states for a text resolved for includes: for every
\* directive in order, when its target is a file, the target and then the
\* dependencies of the content selected from it.
RECURSIVE IncludeDeps(_)
IncludeDeps(text) ==
  LET ms == IncludeMatches(text, 1)
      of(m1) ==
        IF m1 = <<>> \/ MissingInclude(m1) THEN <<>>
        ELSE LET meta == IncludeMeta(m1)
                 target == IncludeTarget(m1, Env)
             IN  <<target>>
                 \o IncludeDeps(IncludeContent(files[target], meta.region,
                                               meta.range, meta.hasMeta, target, Env))
  IN  Flatten([k \in 1..Len(ms) |-> of(ms[k].m1)])

\* the same for a text resolved for snippets: no file is looked into
SnippetDeps(text) ==
  LET ms == SnippetMatches(text, 1)
  IN  Flatten([k \in 1..Len(ms) |->
                 IF ms[k].m1 = <<>> \/ MissingSnippet(ms[k].m1) THEN <<>>
                 ELSE <<SnippetTarget(ms[k].m1, Env)>>])

\* C3: the includes array is empty before the first resolver call of a
\* pass, and after every call it is what it was before the call followed by
\* the targets the call read, each file before the files it includes, with
\* repeated targets repeated; every entry is a file that exists; and when
\* the pass is over file.data.includes is that array.
C3_DependencyList ==
  /\ last.op = "none" => includes = <<>>
  /\ last.op = "include" => includes = last.before \o IncludeDeps(last.content)
  /\ last.op = "snippet" => includes = last.before \o SnippetDeps(last.content)
  /\ \A k \in 1..Len(includes) : IsFile(files, includes[k])
  /\ pc = "done" => data = [set |-> TRUE, includes |-> includes]

\* a finished pass whose list holds a file, the files it includes and a
\* repeated target, and whose latest call met only a missing target
C3_Witness ==
  /\ pc = "done"
  /\ Len(data.includes) >= 5
  /\ \E i, j \in 1..Len(data.includes) : i < j /\ data.includes[i] = data.includes[j]
  /\ last.op = "include"
  /\ last.before = includes
  /\ LET ms == IncludeMatches(last.content, 1)
     IN  \E k \in 1..Len(ms) : MissingInclude(ms[k].m1)

\* -------------------------------------------------------------------------
\* The latest call when the text it resolved holds one directive: the
\* directive, its tokens, its target and the text that stands in its place
\* in the output.
\* -------------------------------------------------------------------------
IncMs == IncludeMatches(last.content, 1)

OneInclude == last.op = "include" /\ Len(IncMs) = 1 /\ IncMs[1].m1 # <<>>

IncMeta == IncludeMeta(IncMs[1].m1)

IncFile == IncludeTarget(IncMs[1].m1, Env)

\* the directive named a file that exists
IncRead == OneInclude /\ IsFile(files, IncFile)

IncText ==
  SubSeq(last.res.out, IncMs[1].s,
         Len(last.res.out) - (Len(last.content) - IncMs[1].e))

SnipMs == SnippetMatches(last.content, 1)

OneSnippet == last.op = "snippet" /\ Len(SnipMs) = 1 /\ SnipMs[1].m1 # <<>>

SnipTok == SnippetToken(SnipMs[1].m1).tok

SnipFile == SnippetTarget(SnipMs[1].m1, Env)

SnipRead == OneSnippet /\ IsFile(files, SnipFile)

\* the emitted block: the fence, the info string, a line end, the body, a
\* line end and the fence
SnipBlock ==
  SubSeq(last.res.out, SnipMs[1].s,
         Len(last.res.out) - (Len(last.content) - SnipMs[1].e))

SnipInfo == SubSeq(SnipBlock, 2, IndexFrom(SnipBlock, "\n", 1) - 1)

SnipBody ==
  SubSeq(SnipBlock, IndexFrom(SnipBlock, "\n", 1) + 1, Len(SnipBlock) - 2)

\* the text holds no include directive
NoDirective(t) == IncludeMatches(t, 1) = <<>>

\* the lines numbered a..b of lines, counted from 1
LinesNumbered(lines, a, b) == SubSeq(lines, Max(a, 1), Min(b, Len(lines)))

\* the lines a {start,end} suffix names, as C4 reads it
RangeLines(lines, range) ==
  LinesNumbered(lines,
                IF range.startLine = <<>> THEN 1 ELSE ParseInt(range.startLine),
                IF range.endLine = <<>> THEN Len(lines)
                ELSE ParseInt(range.endLine))

\* C4: for an include directive with a {start,end} suffix on a file that
\* exists, the substituted text is the lines numbered start..end, counted
\* from 1, of the content left by the region selection, an omitted start
\* standing for the first line and an omitted end for the last.  (Stated for
\* a selection that holds no directive of its own.)
C4_RangeSelectsLines ==
  (IncRead /\ IncMeta.range.found) =>
    LET lines == SplitCRNL(IncludeRegion(files[IncFile], IncMeta.region))
        expected == JoinNL(RangeLines(lines, IncMeta.range))
    IN  NoDirective(expected) => IncText = expected

\* -------------------------------------------------------------------------
\* Regions, stated on the lines of a file without the search of findRegion.
\* Lines are counted from 1, d is the index of a pattern pair.
\* -------------------------------------------------------------------------
Opens(lines, d, i, name) == MarkerExec(Markers[d], "start", lines[i]) = name

Closes(lines, d, i, name) ==
  /\ ~Opens(lines, d, i, name)
  /\ MarkerExec(Markers[d], "end", lines[i]) \in {name, <<>>}

\* how many regions name are open after line k, the one opened at line i
\* included
Level(lines, d, i, k, name) ==
  1 + Cardinality({x \in (i + 1)..k : Opens(lines, d, x, name)})
    - Cardinality({x \in (i + 1)..k : Closes(lines, d, x, name)})

\* line i is the first line that opens a region name, d the first pattern
\* pair it does so in, and line j the line that closes that region
IsRegion(lines, name, d, i, j) ==
  /\ Opens(lines, d, i, name)
  /\ \A i2 \in 1..i, d2 \in 1..Len(Markers) :
       Opens(lines, d2, i2, name) => (i2 = i /\ d2 >= d)
  /\ j > i
  /\ Closes(lines, d, j, name)
  /\ Level(lines, d, i, j, name) = 0
  /\ \A k \in (i + 1)..(j - 1) : Level(lines, d, i, k, name) > 0

\* where the regions name of lines are: at most one triple <<d, i, j>>
RegionsOf(lines, name) ==
  {x \in (1..Len(Markers)) \X (1..Len(lines)) \X (1..Len(lines)) :
     IsRegion(lines, name, x[1], x[2], x[3])}

\* the line is a region marker of some pattern pair
IsMarkerLine(l) ==
  \E d \in 1..Len(Markers) :
    MarkerTest(Markers[d], "start", l) \/ MarkerTest(Markers[d], "end", l)

\* the latest call is one include directive with a #region and no range on
\* a file that exists
IncRegionCase == IncRead /\ IncMeta.region # <<>> /\ ~IncMeta.range.found

IncLines == SplitCRNL(files[IncFile])

\* C5 as stated: for an include directive with #name whose region is found,
\* the substituted text is the lines inside the region, and no region marker
\* line is among them.
C5_NoMarkerLine ==
  IncRegionCase =>
    \A x \in RegionsOf(IncLines, Tail(IncMeta.region)) :
      LET between == SubSeq(IncLines, x[2] + 1, x[3] - 1)
      IN  NoDirective(JoinNL(between)) =>
            /\ IncText = JoinNL(between)
            /\ \A k \in 1..Len(between) : ~IsMarkerLine(between[k])

\* C5 as amended: the substituted text is exactly the lines that stand
\* strictly between the opening marker line of the region and the marker
\* line that closes it, joined by line feeds: no line before the one or
\* after the other, and neither of the two, is in it.  (The marker lines of
\* regions nested inside stay.)
C5_InnerLines ==
  IncRegionCase =>
    \A x \in RegionsOf(IncLines, Tail(IncMeta.region)) :
      LET between == SubSeq(IncLines, x[2] + 1, x[3] - 1)
      IN  NoDirective(JoinNL(between)) => IncText = JoinNL(between)

\* an include of a region that holds the marker lines of a nested region
C5_Witness ==
  /\ IncRegionCase
  /\ \E x \in RegionsOf(IncLines, Tail(IncMeta.region)) :
       LET between == SubSeq(IncLines, x[2] + 1, x[3] - 1)
       IN  /\ IncText = JoinNL(between)
           /\ \E k \in 1..Len(between) : IsMarkerLine(between[k])
           /\ \E k \in 1..Len(between) : ~IsMarkerLine(between[k])
           /\ x[2] > 1 /\ x[3] < Len(IncLines)

\* the latest call is one snippet directive with a #region on a file that
\* exists
SnipRegionCase == SnipRead /\ SnipTok.region # <<>>

\* the content of the target file with every carriage return that stands
\* before a line feed left out
SnipContent ==
  LET raw == files[SnipFile]
      keep == {k \in 1..Len(raw) :
                 ~(raw[k] = "\r" /\ k < Len(raw) /\ raw[k + 1] = "\n")}
      nth(i) == CHOOSE k \in keep : Cardinality({x \in keep : x < k}) = i - 1
  IN  [i \in 1..Cardinality(keep) |-> raw[nth(i)]]

SnipLines == SplitNL(SnipContent)

\* the line is a marker of the pattern pair d, for any region name
IsMarkerOf(d, l) ==
  MarkerTest(Markers[d], "start", l) \/ MarkerTest(Markers[d], "end", l)

\* C6: for a snippet directive with #name whose region is found, the body
\* of the emitted block is dedent of the lines of the region span without
\* the lines that match the start or the end pattern of the chosen pattern
\* pair, and no line of the body is a marker line of that pair.
C6_SnippetRegionBody ==
  SnipRegionCase =>
    \A x \in RegionsOf(SnipLines, Tail(SnipTok.region)) :
      LET span == SubSeq(SnipLines, x[2] + 1, x[3] - 1)
          kept == SelectSeq(span, LAMBDA l : ~IsMarkerOf(x[1], l))
          body == SplitNL(SnipBody)
      IN  /\ SnipBody = Dedent(JoinNL(kept))
          /\ \A k \in 1..Len(body) : ~IsMarkerOf(x[1], body[k])

\* a snippet of a region whose span holds marker lines of a nested region
\* and indented lines: the filter and dedent both changed the body
C6_Witness ==
  /\ SnipRegionCase
  /\ \E x \in RegionsOf(SnipLines, Tail(SnipTok.region)) :
       LET span == SubSeq(SnipLines, x[2] + 1, x[3] - 1)
           kept == SelectSeq(span, LAMBDA l : ~IsMarkerOf(x[1], l))
       IN  /\ kept # span
           /\ kept # <<>>
           /\ SnipBody # JoinNL(kept)
           /\ x[2] > 1 /\ x[3] < Len(SnipLines)

\* C7: when findRegion does not find the region a directive names in a file
\* that exists, an include is replaced by the whole file, or by the lines
\* of its range when it has one, and a snippet emits the whole file as the
\* body of its block; the directive does not stay and the target is
\* recorded.  (The include is stated for a file that holds no directive and
\* a range that starts at line 1 or later.)
C7_RegionNotFound ==
  /\ ( /\ IncRead
       /\ IncMeta.region # <<>>
       /\ ~FindRegion(IncLines, Tail(IncMeta.region)).found
       /\ NoDirective(files[IncFile])
       /\ IncMeta.range.startLine = <<>> \/ ParseInt(IncMeta.range.startLine) >= 1 )
     => /\ IncText = IF IncMeta.range.found
                       THEN JoinNL(RangeLines(IncLines, IncMeta.range))
                     ELSE files[IncFile]
        /\ IncText # SubSeq(last.content, IncMs[1].s, IncMs[1].e)
        /\ last.res.inc = <<IncFile>>
  /\ ( /\ SnipRegionCase
       /\ ~FindRegion(SnipLines, Tail(SnipTok.region)).found )
     => /\ SnipBlock[1] = Fence
        /\ SnipBody = SnipContent
        /\ last.res.inc = <<SnipFile>>

\* an include that names a region its file does not hold and a range, and
\* is replaced by lines of the whole file
C7_Witness ==
  /\ IncRead
  /\ IncMeta.region # <<>>
  /\ IncMeta.range.found
  /\ ~FindRegion(IncLines, Tail(IncMeta.region)).found
  /\ Len(IncLines) > 3
  /\ IncText = JoinNL(SubSeq(IncLines, 2, 3))

\* lang, then {lines}, then [title], then a space and attrs, each part only
\* when its token is not empty; lang is the language token when there is
\* one and the extension of the file otherwise
InfoParts ==
  (IF SnipTok.lang # <<>> THEN SnipTok.lang ELSE SnipTok.extension)
  \o (IF SnipTok.lines # <<>> THEN <<"{">> \o SnipTok.lines \o <<"}">> ELSE <<>>)
  \o (IF SnipTok.title # <<>> THEN <<"[">> \o SnipTok.title \o <<"]">> ELSE <<>>)
  \o (IF SnipTok.attrs # <<>> THEN <<" ">> \o SnipTok.attrs ELSE <<>>)

\* C8 as stated: for a snippet whose target exists, the info string of the
\* emitted fence is lang, {lines}, [title], and a space and attrs, in this
\* order, each part present only if its token is not empty.
C8_InfoParts == SnipRead => SnipInfo = InfoParts

\* C8 as amended: the info string is these parts in this order with the
\* white space at its two ends trimmed, so that attrs alone stand without
\* the space before them.
C8_InfoOrder == SnipRead => SnipInfo = Trim(InfoParts)

\* a snippet that gives a language other than the extension of its file, a
\* line specification, attributes and a title
C8_Witness ==
  /\ SnipRead
  /\ SnipTok.lang # <<>> /\ SnipTok.extension # <<>>
  /\ SnipTok.lang # SnipTok.extension
  /\ SnipTok.lines # <<>> /\ SnipTok.title # <<>> /\ SnipTok.attrs # <<>>
  /\ SnipInfo = InfoParts

\* C9: for a snippet directive without #region whose target exists, the
\* body of the emitted block is the whole content of the file with CRLF
\* turned into LF, whatever line specification the directive gives and
\* whatever directives the file holds.
C9_WholeFileBody == (SnipRead /\ SnipTok.region = <<>>) => SnipBody = SnipContent

\* a snippet with a line specification of a file that holds a CRLF and a
\* snippet directive of its own
C9_Witness ==
  /\ SnipRead
  /\ SnipTok.region = <<>>
  /\ SnipTok.lines # <<>>
  /\ SnipContent # files[SnipFile]
  /\ SnippetMatches(SnipBody, 1) # <<>>
  /\ Len(SplitNL(SnipBody)) > 2

\* the path of a directive without its "@" and the "/" after it
AfterAt(token) ==
  From(token, IF Len(token) >= 2 /\ token[2] = "/" THEN 3 ELSE 2)

\* The file C10 states for a path token: under the source root for a token
\* that starts with "@", relative to the directory of the document that is
\* processed for any other.
StatedPath(token) ==
  IF token # <<>> /\ token[1] = "@" THEN PathJoin(srcDir, AfterAt(token))
  ELSE PathJoin(PathDirname(filePath), token)

\* the same, but for an absolute path, which stands for itself
StatedOrAbsolute(token) ==
  IF token # <<>> /\ token[1] = "/" THEN PathJoin(<<>>, token)
  ELSE StatedPath(token)

\* the files read for a text resolved for includes when every directive, at
\* every depth, reads the file StatedPath gives for its path token
RECURSIVE StatedIncludes(_)
StatedIncludes(text) ==
  LET ms == IncludeMatches(text, 1)
      of(m1) ==
        LET meta == IncludeMeta(m1)
            target == StatedPath(meta.path)
        IN  IF m1 = <<>> \/ ~IsFile(files, target) THEN <<>>
            ELSE <<target>>
                 \o StatedIncludes(IncludeContent(files[target], meta.region,
                                                  meta.range, meta.hasMeta,
                                                  target, Env))
  IN  Flatten([k \in 1..Len(ms) |-> of(ms[k].m1)])

\* the path token of a snippet directive, with its "@"
SnippetPathToken(rawPath) ==
  LET t == SnippetToken(rawPath)
  IN  (IF t.atPresent THEN <<"@">> ELSE <<>>) \o t.tok.filepath

\* the files read for a text resolved for snippets when every directive
\* reads the file Path gives for its path token
StatedSnippets(text, Path(_)) ==
  LET ms == SnippetMatches(text, 1)
      of(rawPath) ==
        IF rawPath = <<>> \/ ~IsFile(files, Path(SnippetPathToken(rawPath)))
          THEN <<>>
        ELSE <<Path(SnippetPathToken(rawPath))>>
  IN  Flatten([k \in 1..Len(ms) |-> of(ms[k].m1)])

\* C10 as stated: every directive reads the file its path token names under
\* the source root when the token starts with "@" and relative to the
\* directory of the document otherwise, a directive inside included content
\* like one of the document.
C10_StatedPaths ==
  /\ last.op = "include" => last.res.inc = StatedIncludes(last.content)
  /\ last.op = "snippet" => last.res.inc = StatedSnippets(last.content, StatedPath)

\* C10 as amended: the same, except that a snippet path that is absolute
\* names the file it reads by itself.
C10_ResolvedPaths ==
  /\ last.op = "include" => last.res.inc = StatedIncludes(last.content)
  /\ last.op = "snippet" =>
       last.res.inc = StatedSnippets(last.content, StatedOrAbsolute)

\* an include of a file of another directory whose own relative include was
\* read from the directory of the document
C10_Witness ==
  /\ last.op = "include"
  /\ \E k \in 1..(Len(last.res.inc) - 1) :
       LET ms == IncludeMatches(files[last.res.inc[k]], 1)
       IN  /\ PathDirname(last.res.inc[k]) # PathDirname(filePath)
           /\ PathDirname(last.res.inc[k + 1]) = PathDirname(filePath)
           /\ \E i \in 1..Len(ms) :
                last.res.inc[k + 1] =
                  PathJoin(PathDirname(filePath), IncludeMeta(ms[i].m1).path)

\* -------------------------------------------------------------------------
\* Frontmatter stripping.
\* -------------------------------------------------------------------------
\* the content the directive of the latest call selects from its file when
\* no frontmatter is stripped
IncSelected ==
  IncludeRange(IncludeRegion(ReadFileSync(files, IncFile), IncMeta.region),
               IncMeta.range)

\* C11: when remarkInclude is configured without a stripFrontmatter option,
\* an include of an existing .md file that carries neither a region nor a
\* range is replaced by the content of the file without its leading
\* frontmatter block, and an include that carries a region or a range is
\* replaced by the content it selects, no frontmatter stripped.
C11_StripByDefault ==
  (stripFrontmatter = "undefined" /\ IncRead) =>
     IF ~IncMeta.hasMeta /\ PathExtname(IncFile) = <<".", "md">>
       THEN IncText = ProcessIncludes(Matter(ReadFileSync(files, IncFile)), Env).out
     ELSE IncText = ProcessIncludes(IncSelected, Env).out

\* -------------------------------------------------------------------------
\* Containment of a failing directive.
\* -------------------------------------------------------------------------
\* the directive k of the matches ms of a text
DirectiveText(text, ms, k) == SubSeq(text, ms[k].s, ms[k].e)

\* the text between the directive k - 1 (or the start) and the directive k
GapBefore(text, ms, k) ==
  SubSeq(text, IF k = 1 THEN 1 ELSE ms[k - 1].e + 1, ms[k].s - 1)

\* the text in which every directive whose target can be read is replaced
\* by what the resolver returns for that directive standing alone, and
\* every other directive is left as it is
EachAlone(text, ms, CanRead(_), Alone(_)) ==
  IF ms = <<>> THEN text
  ELSE Flatten([k \in 1..Len(ms) |->
                  GapBefore(text, ms, k)
                  \o (IF CanRead(ms[k].m1) THEN Alone(DirectiveText(text, ms, k)).out
                      ELSE DirectiveText(text, ms, k))])
       \o From(text, ms[Len(ms)].e + 1)

\* the files recorded when every readable directive is resolved alone
EachAloneDeps(text, ms, CanRead(_), Alone(_)) ==
  Flatten([k \in 1..Len(ms) |->
             IF CanRead(ms[k].m1) THEN Alone(DirectiveText(text, ms, k)).inc
             ELSE <<>>])

IncludeReadable(m1) == m1 # <<>> /\ IsFile(files, IncludeTarget(m1, Env))

SnippetReadable(rawPath) ==
  rawPath # <<>> /\ IsFile(files, SnippetTarget(rawPath, Env))

IncludeAlone(m) == ProcessIncludes(m, Env)

SnippetAlone(m) == ProcessSnippets(m, Env)

\* C12: a resolver call on a text with a directive that fails (its file is
\* missing or cannot be read, or its payload names nothing) returns, and
\* every other directive of the text whose target exists is expanded, and
\* its files recorded, exactly as when it is resolved standing alone; the
\* text between the directives and the failing directives are unchanged.
C12_FailureContained ==
  /\ (last.op = "include" /\ \E k \in 1..Len(IncMs) : ~IncludeReadable(IncMs[k].m1)) =>
       /\ last.res.out =
            EachAlone(last.content, IncMs, IncludeReadable, IncludeAlone)
       /\ last.res.inc =
            EachAloneDeps(last.content, IncMs, IncludeReadable, IncludeAlone)
       /\ includes = last.before \o last.res.inc
  /\ (last.op = "snippet" /\ \E k \in 1..Len(SnipMs) : ~SnippetReadable(SnipMs[k].m1)) =>
       /\ last.res.out =
            EachAlone(last.content, SnipMs, SnippetReadable, SnippetAlone)
       /\ last.res.inc =
            EachAloneDeps(last.content, SnipMs, SnippetReadable, SnippetAlone)
       /\ includes = last.before \o last.res.inc

\* a snippet resolution of a text with a directive that was expanded and a
\* directive whose file is missing
C12_Witness ==
  /\ last.op = "snippet"
  /\ \E j, k \in 1..Len(SnipMs) :
       /\ SnippetReadable(SnipMs[j].m1)
       /\ SnipMs[k].m1 # <<>> /\ ~SnippetReadable(SnipMs[k].m1)
  /\ last.res.out # last.content
  /\ Len(last.res.inc) = 1

\* -------------------------------------------------------------------------
\* findRegion against the regions stated by nesting count.
\* -------------------------------------------------------------------------
\* findRegion(lines, name) finds a region exactly when lines holds one, and
\* then returns the pattern pair d of its opening line, start = i + 1 for the
\* opening line of 0-based index i (the 1-based x[2]) and end = the 0-based
\* index of its closing line (the 1-based x[3] less one)
FindRegionAgrees(lines, name) ==
  LET r == FindRegion(lines, name)
      xs == RegionsOf(lines, name)
  IN  /\ r.found <=> xs # {}
      /\ r.found => xs = {<<r.re, r.start, r.end + 1>>}

CountOf(q, v) == Cardinality({k \in 1..Len(q) : q[k] = v})

\* the values of the html nodes of the tree the transformer was called on
OriginalHtml ==
  [k \in 1..Len(original) |->
     IF original[k].type = "html" THEN original[k].value ELSE <<>>]

\* C16: when the walk of a document is over, every html node of the tree
\* the transformer was called on whose text holds an include directive has
\* been passed to processIncludes, whatever the number of nodes the
\* replacement of an earlier sibling put in its place: such a text was passed
\* at least as often as the original tree holds it.
C16_NoNodeSkipped ==
  pc = "done" =>
    \A k \in 1..Len(original) :
      (original[k].type = "html" /\ IncludeMatches(original[k].value, 1) # <<>>) =>
        CountOf(passed, original[k].value) >= CountOf(OriginalHtml, original[k].value)

\* -------------------------------------------------------------------------
\* The scan position of the shared patterns.
\* -------------------------------------------------------------------------
\* the walk stands before a top-level html node
AtHtml == pc = "children" /\ ~inner /\ idx < Len(tree) /\ tree[idx + 1].type = "html"

\* the walk stands before the text child of a paragraph
AtText == pc = "children" /\ inner /\ tree[idx + 1].child = "text"

IsIndentChar(c) == c = " " \/ c = "\t"

\* the count of leading spaces and tabs of a line
LeadingOf(line) ==
  Cardinality({k \in 1..Len(line) : \A j \in 1..k : IsIndentChar(line[j])})

\* the line holds a character that is neither a space nor a tab
HasInk(line) == \E k \in 1..Len(line) : ~IsIndentChar(line[k])

\* the smallest count of leading spaces and tabs among the lines with such
\* a character
CommonIndent(lines) ==
  LET counts == {LeadingOf(lines[k]) : k \in {i \in 1..Len(lines) : HasInk(lines[i])}}
  IN  CHOOSE m \in counts : \A n \in counts : m <= n

\* C18: dedent(text) takes the same number m of leading characters off every
\* line (all of a line that has fewer), m the smallest count of leading
\* spaces and tabs among the lines that hold another character: empty lines
\* and lines of spaces and tabs do not lower m.  No character other than a
\* space or a tab is removed, the lines keep their number and order, a text
\* without a line that holds another character is returned unchanged, and
\* dedent(dedent(text)) = dedent(text).
C18_DedentCommonIndent ==
  dOut # <<>> =>
    LET lines == SplitNL(dText)
        out == SplitNL(dOut[1])
    IN  /\ IF \A k \in 1..Len(lines) : ~HasInk(lines[k])
             THEN dOut[1] = dText
           ELSE /\ Len(out) = Len(lines)
                /\ \A k \in 1..Len(lines) :
                     /\ out[k] = From(lines[k], CommonIndent(lines) + 1)
                     /\ \A j \in 1..Min(CommonIndent(lines), Len(lines[k])) :
                          IsIndentChar(lines[k][j])
        /\ Len(dOut) = 2 => dOut[2] = dOut[1]

\* dedent was applied twice to a text whose lines are indented by different
\* amounts, with a line of spaces shorter than the common indent: the first
\* call changed the text
C18_Witness ==
  /\ Len(dOut) = 2
  /\ dOut[1] # dText
  /\ LET lines == SplitNL(dText)
     IN  /\ \E k \in 1..Len(lines) : HasInk(lines[k])
         /\ \E k \in 1..Len(lines) :
              ~HasInk(lines[k]) /\ Len(lines[k]) < CommonIndent(lines)
         /\ \E k \in 1..Len(lines) :
              HasInk(lines[k]) /\ LeadingOf(lines[k]) > CommonIndent(lines)

\* -------------------------------------------------------------------------
\* The hooks of the plugin object.
\* -------------------------------------------------------------------------
\* C13: in an SSR build (configResolved was given build.ssr = true) no
\* sequence of transformHtml and buildEnd calls records a page or produces
\* an output: the Map stays empty, buildEnd does not call processPages and
\* nothing is written.
C13_SsrRecordsNothing ==
  isSsrBuild =>
    /\ DOMAIN pageContents = {}
    /\ written = EmptyBag
    /\ ~lastHook.processed

\* an SSR build in which transformHtml was called for two pages and buildEnd
\* after them
C13_Witness ==
  /\ isSsrBuild
  /\ lastHook.op = "buildEnd"
  /\ Cardinality(DOMAIN recorded) >= 2

\* the name of the output of a page: <dir>.md for <dir>/index.md, the path
\* of the page for every other page, the index.md of the root among them
OutputName(p) ==
  IF \E n \in 1..Len(p) :
       n > 1 /\ p[n] = "/" /\ From(p, n + 1) = <<"index", ".", "md">>
    THEN SubSeq(p, 1, Len(p) - 4) \o <<".", "md">>
  ELSE p

OutputOf(pages, p) == [path |-> OutputName(p), html |-> pages[p]]

\* one output for every page of pages
OutputsOf(pages) ==
  [r \in {OutputOf(pages, p) : p \in DOMAIN pages} |->
     Cardinality({p \in DOMAIN pages : OutputOf(pages, p) = r})]

\* C14: in a client build with generateLLMFriendlyDocsForEachPage on, the
\* outputs of buildEnd are one for every relative path that transformHtml
\* was called with since the latest buildStart, with the HTML of the latest
\* call for that path, named <dir>.md for <dir>/index.md and by the path
\* itself otherwise; a page recorded only before that buildStart has none.
C14_OutputsSinceBuildStart ==
  (lastHook.op = "buildEnd" /\ ~isSsrBuild /\ generateLLMFriendlyDocsForEachPage) =>
    written = OutputsOf(recorded)

\* a buildEnd of a client build after a buildStart before which a page was
\* recorded that was not recorded again, with guide/index.md and the
\* index.md of the root among the pages recorded since
C14_Witness ==
  /\ lastHook.op = "buildEnd" /\ ~isSsrBuild /\ generateLLMFriendlyDocsForEachPage
  /\ \E p \in earlier : p \notin DOMAIN recorded
  /\ <<"guide", "/", "index", ".", "md">> \in DOMAIN recorded
  /\ <<"index", ".", "md">> \in DOMAIN recorded
  /\ written # EmptyBag

\* C19: the output paths processPages assigns to the prepared files of
\* distinct pages are pairwise distinct: no two per-page outputs of a
\* buildEnd have the same path.
C19_DistinctOutputPaths ==
  (lastHook.op = "buildEnd" /\ lastHook.processed) =>
    \A r \in BagToSet(written) :
      /\ CopiesIn(r, written) = 1
      /\ \A q \in BagToSet(written) : q # r => q.path # r.path

====
